---- MODULE Spec2Model ----
(***************************************************************************)
(* Per-opcode witness generation of the EVM trace generator                *)
(* (evm/src/witness/operation.rs).                                         *)
(*                                                                         *)
(* A 256-bit word (U256) is modelled exactly, as the sequence of its       *)
(* sixteen 16-bit limbs, least significant first: limb k (from 0) of x is  *)
(* x[k + 1], and the word is the sum of x[k + 1] * 65536^k.  A u32         *)
(* (program_counter) is the sequence of its two 16-bit limbs.  stack_len,  *)
(* context, channel numbers and offsets are small naturals.                *)
(***************************************************************************)
EXTENDS Integers, Sequences, FiniteSets

\* ------------------------------------------------------------------------
\* Bounds of the model
\* ------------------------------------------------------------------------
\* handler invocations per run
MaxSteps == 2
\* deepest stack the initial state holds
MaxStack == 3
\* largest n of Dup(n) and Swap(n), largest opcode of Syscall(opcode)
MaxArg == 1

\* ------------------------------------------------------------------------
\* Program constants
\* ------------------------------------------------------------------------
\* U256 is 16 limbs of 16 bits, u32 is 2 of them
LimbBase == 65536
LimbBits == 16
WordLimbs == 16
U32Limbs == 2
WordBits == 256
\* crate::cpu::membus::NUM_GP_CHANNELS
NUM_GP_CHANNELS == 5
\* Segment::Code as u32, Segment::Stack as u32
SegmentCode == 0
SegmentStack == 1
\* KERNEL.global_labels["syscall_jumptable"]
SyscallJumptable == 2

\* ------------------------------------------------------------------------
\* U256 arithmetic (ethereum_types::U256), on 16-bit limbs
\* ------------------------------------------------------------------------
\* the word with limb k equal to v and every other limb zero: v * 65536^k
WordAt(k, v) == [i \in 1..WordLimbs |-> IF i = k + 1 THEN v ELSE 0]

U256Zero == WordAt(0, 0)
U256One == WordAt(0, 1)
U256Max == [i \in 1..WordLimbs |-> LimbBase - 1]

\* U256::bit(i)
Bit(x, i) == (x[(i \div LimbBits) + 1] \div (2 ^ (i % LimbBits))) % 2

\* bitwise and of two limbs
RECURSIVE AndLimb(_, _)
AndLimb(x, y) ==
    IF x = 0 \/ y = 0 THEN 0
    ELSE (x % 2) * (y % 2) + 2 * AndLimb(x \div 2, y \div 2)

\* a & b, a | b, a ^ b, !a
BitAnd(a, b) == [i \in 1..WordLimbs |-> AndLimb(a[i], b[i])]
BitOr(a, b) == [i \in 1..WordLimbs |-> a[i] + b[i] - AndLimb(a[i], b[i])]
BitXor(a, b) == [i \in 1..WordLimbs |-> a[i] + b[i] - 2 * AndLimb(a[i], b[i])]
BitNot(a) == [i \in 1..WordLimbs |-> (LimbBase - 1) - a[i]]

\* a << k over n limbs: bits shifted past the top limb are dropped, no panic
ShlN(a, k, n) ==
    LET q == k \div LimbBits
        r == k % LimbBits
    IN  [i \in 1..n |->
            (IF i - q >= 1 /\ i - q <= Len(a)
             THEN (a[i - q] * (2 ^ r)) % LimbBase ELSE 0)
          + (IF i - q - 1 >= 1 /\ i - q - 1 <= Len(a)
             THEN a[i - q - 1] \div (2 ^ (LimbBits - r)) ELSE 0)]
Shl(a, k) == ShlN(a, k, WordLimbs)

\* the limbs i..n of a + b + carry, least significant first, followed by the
\* carry out of limb n
RECURSIVE AddLimbs(_, _, _, _, _)
AddLimbs(a, b, i, n, carry) ==
    IF i > n THEN <<carry>>
    ELSE <<(a[i] + b[i] + carry) % LimbBase>>
         \o AddLimbs(a, b, i + 1, n, (a[i] + b[i] + carry) \div LimbBase)

\* U256::overflowing_add : the sum modulo 2^256, and whether it wrapped
overflowing_add(a, b) ==
    LET sum == AddLimbs(a, b, 1, WordLimbs, 0)
    IN  [value |-> SubSeq(sum, 1, WordLimbs), overflow |-> sum[WordLimbs + 1] = 1]

\* U256::from(u32), U256::from(u64::from(bool))
U256FromU32(p) == [i \in 1..WordLimbs |-> IF i <= U32Limbs THEN p[i] ELSE 0]
U256FromBool(b) == IF b THEN U256One ELSE U256Zero

\* U256::as_u32 succeeds only for values below 2^32, and is then the low u32
FitsU32(x) == \A i \in (U32Limbs + 1)..WordLimbs : x[i] = 0
LowU32(x) == [i \in 1..U32Limbs |-> x[i]]
U32Zero == [i \in 1..U32Limbs |-> 0]
U32One == [i \in 1..U32Limbs |-> IF i = 1 THEN 1 ELSE 0]

\* limb as u32 : the low 32 bits of the u64 limb number k of x
LimbLowU32(x, k) == [i \in 1..U32Limbs |-> x[4 * k + i]]
\* (limb >> 32) as u32 : the high 32 bits of the u64 limb number k of x
LimbHighU32(x, k) == [i \in 1..U32Limbs |-> x[4 * k + U32Limbs + i]]

\* ------------------------------------------------------------------------
\* Memory view, trace sink, row scratch buffer
\* ------------------------------------------------------------------------
\* MemoryState: the words written so far, by address (context, segment,
\* offset); an untouched address reads as zero
MemGet(memory_state, address) ==
    IF address \in DOMAIN memory_state THEN memory_state[address] ELSE U256Zero

MemSet(memory_state, address, val) ==
    [a \in (DOMAIN memory_state) \cup {address} |->
        IF a = address THEN val ELSE memory_state[a]]

\* the memory after the write logs of a step have been applied, in order
RECURSIVE ApplyOps(_, _)
ApplyOps(memory_state, ops) ==
    IF ops = <<>>
    THEN memory_state
    ELSE LET op == Head(ops)
         IN  ApplyOps(IF op.is_read THEN memory_state
                      ELSE MemSet(memory_state, op.address, op.value),
                      Tail(ops))

\* one logged access: the channel within the step, the step it belongs to,
\* the address, the direction and the word
MemoryOp(channel, timestamp, address, is_read, value) ==
    [channel |-> channel, timestamp |-> timestamp, address |-> address,
     is_read |-> is_read, value |-> value]

\* Traces: the three append-only row lists
\* (calls: the list each push went to, in the order of the pushes)
EmptyTraces == [cpu |-> <<>>, memory |-> <<>>, logic |-> <<>>, calls |-> <<>>]
push_cpu(traces, row) ==
    [traces EXCEPT !.cpu = Append(@, row), !.calls = Append(@, "cpu")]
push_memory(traces, log) ==
    [traces EXCEPT !.memory = Append(@, log), !.calls = Append(@, "memory")]
push_logic(traces, row) ==
    [traces EXCEPT !.logic = Append(@, row), !.calls = Append(@, "logic")]
\* the step the sink is at: one CPU row is pushed per completed step
clock(traces) == Len(traces.cpu)

\* CpuColumnsView as the dispatcher hands it over: no channel used, no call
\* of generate_pinv_diff made
UnusedChannel ==
    [used |-> FALSE, is_read |-> FALSE, address |-> <<0, 0, 0>>, value |-> U256Zero]
NoWitness == [written |-> FALSE, val0 |-> U256Zero, val1 |-> U256Zero]
EmptyRow ==
    [mem_channels |-> [c \in 0..(NUM_GP_CHANNELS - 1) |-> UnusedChannel],
     diff_pinv |-> NoWitness]

FillChannel(row, n, log) ==
    [row EXCEPT !.mem_channels[n] =
        [used |-> TRUE, is_read |-> log.is_read, address |-> log.address,
         value |-> log.value]]

\* ------------------------------------------------------------------------
\* witness::util : the stack/memory access protocol
\* ------------------------------------------------------------------------
mem_read_gp_with_log_and_fill(n, address, memory_state, traces, row) ==
    LET val == MemGet(memory_state, address)
        log == MemoryOp(n, clock(traces), address, TRUE, val)
    IN  [val |-> val, log |-> log, row |-> FillChannel(row, n, log)]

mem_write_gp_log_and_fill(n, address, traces, row, val) ==
    LET log == MemoryOp(n, clock(traces), address, FALSE, val)
    IN  [log |-> log, row |-> FillChannel(row, n, log)]

\* the reads of stack_pop: element i (from 1) is the slot stack_len - i, on
\* channel i - 1
RECURSIVE PopReads(_, _, _, _, _, _)
PopReads(i, K, registers_state, memory_state, traces, row) ==
    IF i > K
    THEN [vals |-> <<>>, logs |-> <<>>, row |-> row]
    ELSE LET address == <<registers_state.context, SegmentStack,
                          registers_state.stack_len - i>>
             rd == mem_read_gp_with_log_and_fill(i - 1, address, memory_state, traces, row)
             rest == PopReads(i + 1, K, registers_state, memory_state, traces, rd.row)
         IN  [vals |-> <<rd.val>> \o rest.vals, logs |-> <<rd.log>> \o rest.logs,
              row |-> rest.row]

stack_pop_with_log_and_fill(K, registers_state, memory_state, traces, row) ==
    IF registers_state.stack_len < K
    THEN [ok |-> FALSE, error |-> "StackUnderflow", vals |-> <<>>, logs |-> <<>>,
          registers_state |-> registers_state, row |-> row]
    ELSE LET rd == PopReads(1, K, registers_state, memory_state, traces, row)
         IN  [ok |-> TRUE, error |-> "", vals |-> rd.vals, logs |-> rd.logs,
              registers_state |->
                  [registers_state EXCEPT !.stack_len = registers_state.stack_len - K],
              row |-> rd.row]

stack_push_log_and_fill(registers_state, traces, row, val) ==
    LET address == <<registers_state.context, SegmentStack, registers_state.stack_len>>
        wr == mem_write_gp_log_and_fill(NUM_GP_CHANNELS - 1, address, traces, row, val)
    IN  [ok |-> TRUE, error |-> "", log |-> wr.log,
         registers_state |->
             [registers_state EXCEPT !.stack_len = registers_state.stack_len + 1],
         row |-> wr.row]

\* ------------------------------------------------------------------------
\* Results of a handler
\* ------------------------------------------------------------------------
\* Ok(registers_state), with the sink as the handler left it
Ok(registers_state, traces) ==
    [tag |-> "Ok", error |-> "", registers_state |-> registers_state, traces |-> traces]
\* Err(error): the caller keeps its own registers
Err(error, registers_state, traces) ==
    [tag |-> "Err", error |-> error, registers_state |-> registers_state,
     traces |-> traces]
\* a failed assertion or checked conversion: the process aborts
Panic(registers_state, traces) ==
    [tag |-> "Panic", error |-> "", registers_state |-> registers_state,
     traces |-> traces]

\* ------------------------------------------------------------------------
\* Operation handlers (witness/operation.rs)
\* ------------------------------------------------------------------------
\* variant: And and Or exchanged
BinaryLogicOp_result_exchanged(op, a, b) ==
    CASE op = "And" -> BitOr(a, b)
      [] op = "Or"  -> BitAnd(a, b)
      [] op = "Xor" -> BitXor(a, b)

\* variant: Xor computed as Or
BinaryLogicOp_result_xor_as_or(op, a, b) ==
    CASE op = "And" -> BitAnd(a, b)
      [] op = "Or"  -> BitOr(a, b)
      [] op = "Xor" -> BitOr(a, b)

\* BinaryLogicOp::result
BinaryLogicOp_result(op, a, b) ==
    CASE op = "And" -> BitAnd(a, b)
      [] op = "Or"  -> BitOr(a, b)
      [] op = "Xor" -> BitXor(a, b)

\* variant: the high u32 half of each result limb is written before the low
make_logic_row_high_half_first(op, in0, in1, result) ==
    [IS_AND |-> IF op = "And" THEN 1 ELSE 0,
     IS_OR  |-> IF op = "Or" THEN 1 ELSE 0,
     IS_XOR |-> IF op = "Xor" THEN 1 ELSE 0,
     INPUT0 |-> [i \in 0..(WordBits - 1) |-> Bit(in0, i)],
     INPUT1 |-> [i \in 0..(WordBits - 1) |-> Bit(in1, i)],
     RESULT |-> [j \in 0..7 |->
                    IF j % 2 = 0 THEN LimbHighU32(result, j \div 2)
                    ELSE LimbLowU32(result, j \div 2)]]

\* the logic sub-table row: selectors, the 256 bits of each input, and the
\* result as the low and high u32 half of each of its four u64 limbs
make_logic_row(op, in0, in1, result) ==
    [IS_AND |-> IF op = "And" THEN 1 ELSE 0,
     IS_OR  |-> IF op = "Or" THEN 1 ELSE 0,
     IS_XOR |-> IF op = "Xor" THEN 1 ELSE 0,
     INPUT0 |-> [i \in 0..(WordBits - 1) |-> Bit(in0, i)],
     INPUT1 |-> [i \in 0..(WordBits - 1) |-> Bit(in1, i)],
     RESULT |-> [j \in 0..7 |->
                    IF j % 2 = 0 THEN LimbLowU32(result, j \div 2)
                    ELSE LimbHighU32(result, j \div 2)]]

\* variant: the logic row is pushed after the memory logs
generate_binary_logic_op_logic_row_late(op, registers_state, memory_state, traces, row) ==
    LET pop == stack_pop_with_log_and_fill(2, registers_state, memory_state, traces, row)
    IN  IF ~pop.ok THEN Err(pop.error, pop.registers_state, traces)
        ELSE
        LET in0 == pop.vals[1]
            in1 == pop.vals[2]
            result == BinaryLogicOp_result(op, in0, in1)
            push == stack_push_log_and_fill(pop.registers_state, traces, pop.row, result)
            t1 == push_memory(traces, pop.logs[1])
            t2 == push_memory(t1, pop.logs[2])
            t3 == push_memory(t2, push.log)
            t4 == push_logic(t3, make_logic_row(op, in0, in1, result))
            t5 == push_cpu(t4, push.row)
        IN  Ok(push.registers_state, t5)

generate_binary_logic_op(op, registers_state, memory_state, traces, row) ==
    LET pop == stack_pop_with_log_and_fill(2, registers_state, memory_state, traces, row)
    IN  IF ~pop.ok THEN Err(pop.error, pop.registers_state, traces)
        ELSE
        LET in0 == pop.vals[1]
            in1 == pop.vals[2]
            result == BinaryLogicOp_result(op, in0, in1)
            push == stack_push_log_and_fill(pop.registers_state, traces, pop.row, result)
        IN  IF ~push.ok THEN Err(push.error, push.registers_state, traces)
            ELSE
            LET t1 == push_logic(traces, make_logic_row(op, in0, in1, result))
                t2 == push_memory(t1, pop.logs[1])
                t3 == push_memory(t2, pop.logs[2])
                t4 == push_memory(t3, push.log)
                t5 == push_cpu(t4, push.row)
            IN  Ok(push.registers_state, t5)

\* variant: the source is taken one slot deeper, stack_len.checked_sub(2 + n)
generate_dup_deeper(n, registers_state, memory_state, traces, row) ==
    IF registers_state.stack_len < 2 + n
    THEN Err("StackUnderflow", registers_state, traces)
    ELSE
    LET other_addr == <<registers_state.context, SegmentStack,
                        registers_state.stack_len - (2 + n)>>
        rd == mem_read_gp_with_log_and_fill(0, other_addr, memory_state, traces, row)
        push == stack_push_log_and_fill(registers_state, traces, rd.row, rd.val)
        t1 == push_memory(traces, rd.log)
        t2 == push_memory(t1, push.log)
        t3 == push_cpu(t2, push.row)
    IN  Ok(push.registers_state, t3)

\* variant: the source slot is read on channel 1
generate_dup_read_channel_1(n, registers_state, memory_state, traces, row) ==
    IF registers_state.stack_len < 1 + n
    THEN Err("StackUnderflow", registers_state, traces)
    ELSE
    LET other_addr == <<registers_state.context, SegmentStack,
                        registers_state.stack_len - (1 + n)>>
        rd == mem_read_gp_with_log_and_fill(1, other_addr, memory_state, traces, row)
        push == stack_push_log_and_fill(registers_state, traces, rd.row, rd.val)
        t1 == push_memory(traces, rd.log)
        t2 == push_memory(t1, push.log)
        t3 == push_cpu(t2, push.row)
    IN  Ok(push.registers_state, t3)

generate_dup(n, registers_state, memory_state, traces, row) ==
    \* stack_len.checked_sub(1 + n)
    IF registers_state.stack_len < 1 + n
    THEN Err("StackUnderflow", registers_state, traces)
    ELSE
    LET other_addr_lo == registers_state.stack_len - (1 + n)
        other_addr == <<registers_state.context, SegmentStack, other_addr_lo>>
        rd == mem_read_gp_with_log_and_fill(0, other_addr, memory_state, traces, row)
        push == stack_push_log_and_fill(registers_state, traces, rd.row, rd.val)
    IN  IF ~push.ok THEN Err(push.error, push.registers_state, traces)
        ELSE
        LET t1 == push_memory(traces, rd.log)
            t2 == push_memory(t1, push.log)
            t3 == push_cpu(t2, push.row)
        IN  Ok(push.registers_state, t3)

\* variant: the top is popped and its log pushed before the target is checked
generate_swap_pop_first(n, registers_state, memory_state, traces, row) ==
    LET pop == stack_pop_with_log_and_fill(1, registers_state, memory_state, traces, row)
    IN  IF ~pop.ok THEN Err(pop.error, pop.registers_state, traces)
        ELSE
        LET t1 == push_memory(traces, pop.logs[1])
        IN  IF registers_state.stack_len < 2 + n
            THEN Err("StackUnderflow", pop.registers_state, t1)
            ELSE
            LET other_addr == <<registers_state.context, SegmentStack,
                                registers_state.stack_len - (2 + n)>>
                rd == mem_read_gp_with_log_and_fill(1, other_addr, memory_state, traces, pop.row)
                wr == mem_write_gp_log_and_fill(
                          NUM_GP_CHANNELS - 2, other_addr, traces, rd.row, pop.vals[1])
                push == stack_push_log_and_fill(pop.registers_state, traces, wr.row, rd.val)
                t2 == push_memory(t1, rd.log)
                t3 == push_memory(t2, wr.log)
                t4 == push_memory(t3, push.log)
                t5 == push_cpu(t4, push.row)
            IN  Ok(push.registers_state, t5)

\* variant: the target slot is overwritten with its own value
generate_swap_write_in1(n, registers_state, memory_state, traces, row) ==
    IF registers_state.stack_len < 2 + n
    THEN Err("StackUnderflow", registers_state, traces)
    ELSE
    LET other_addr == <<registers_state.context, SegmentStack,
                        registers_state.stack_len - (2 + n)>>
        pop == stack_pop_with_log_and_fill(1, registers_state, memory_state, traces, row)
        rd == mem_read_gp_with_log_and_fill(1, other_addr, memory_state, traces, pop.row)
        wr == mem_write_gp_log_and_fill(NUM_GP_CHANNELS - 2, other_addr, traces, rd.row, rd.val)
        push == stack_push_log_and_fill(pop.registers_state, traces, wr.row, rd.val)
        t1 == push_memory(traces, pop.logs[1])
        t2 == push_memory(t1, rd.log)
        t3 == push_memory(t2, wr.log)
        t4 == push_memory(t3, push.log)
        t5 == push_cpu(t4, push.row)
    IN  Ok(push.registers_state, t5)

\* variant: the target is checked one slot too shallow,
\* stack_len.checked_sub(1 + n), and the offset is taken without a check
generate_swap_shallow_check(n, registers_state, memory_state, traces, row) ==
    IF registers_state.stack_len < 1 + n
    THEN Err("StackUnderflow", registers_state, traces)
    ELSE
    LET other_addr == <<registers_state.context, SegmentStack,
                        registers_state.stack_len - (2 + n)>>
        pop == stack_pop_with_log_and_fill(1, registers_state, memory_state, traces, row)
        rd == mem_read_gp_with_log_and_fill(1, other_addr, memory_state, traces, pop.row)
        wr == mem_write_gp_log_and_fill(NUM_GP_CHANNELS - 2, other_addr, traces, rd.row,
                                        pop.vals[1])
        push == stack_push_log_and_fill(pop.registers_state, traces, wr.row, rd.val)
        t1 == push_memory(traces, pop.logs[1])
        t2 == push_memory(t1, rd.log)
        t3 == push_memory(t2, wr.log)
        t4 == push_memory(t3, push.log)
        t5 == push_cpu(t4, push.row)
    IN  Ok(push.registers_state, t5)

\* variant: the write log is pushed to the sink before the log of the
\* target read
generate_swap_write_log_first(n, registers_state, memory_state, traces, row) ==
    IF registers_state.stack_len < 2 + n
    THEN Err("StackUnderflow", registers_state, traces)
    ELSE
    LET other_addr == <<registers_state.context, SegmentStack,
                        registers_state.stack_len - (2 + n)>>
        pop == stack_pop_with_log_and_fill(1, registers_state, memory_state, traces, row)
        rd == mem_read_gp_with_log_and_fill(1, other_addr, memory_state, traces, pop.row)
        wr == mem_write_gp_log_and_fill(NUM_GP_CHANNELS - 2, other_addr, traces, rd.row,
                                        pop.vals[1])
        push == stack_push_log_and_fill(pop.registers_state, traces, wr.row, rd.val)
        t1 == push_memory(traces, pop.logs[1])
        t2 == push_memory(t1, wr.log)
        t3 == push_memory(t2, rd.log)
        t4 == push_memory(t3, push.log)
        t5 == push_cpu(t4, push.row)
    IN  Ok(push.registers_state, t5)

\* variant: the target is overwritten on channel 1, the channel of its read
generate_swap_write_channel_1(n, registers_state, memory_state, traces, row) ==
    IF registers_state.stack_len < 2 + n
    THEN Err("StackUnderflow", registers_state, traces)
    ELSE
    LET other_addr == <<registers_state.context, SegmentStack,
                        registers_state.stack_len - (2 + n)>>
        pop == stack_pop_with_log_and_fill(1, registers_state, memory_state, traces, row)
        rd == mem_read_gp_with_log_and_fill(1, other_addr, memory_state, traces, pop.row)
        wr == mem_write_gp_log_and_fill(1, other_addr, traces, rd.row, pop.vals[1])
        push == stack_push_log_and_fill(pop.registers_state, traces, wr.row, rd.val)
        t1 == push_memory(traces, pop.logs[1])
        t2 == push_memory(t1, rd.log)
        t3 == push_memory(t2, wr.log)
        t4 == push_memory(t3, push.log)
        t5 == push_cpu(t4, push.row)
    IN  Ok(push.registers_state, t5)

\* variant: the channel of the target read depends on what the sink holds
generate_swap_sink_dependent(n, registers_state, memory_state, traces, row) ==
    IF registers_state.stack_len < 2 + n
    THEN Err("StackUnderflow", registers_state, traces)
    ELSE
    LET other_addr == <<registers_state.context, SegmentStack,
                        registers_state.stack_len - (2 + n)>>
        pop == stack_pop_with_log_and_fill(1, registers_state, memory_state, traces, row)
        rd == mem_read_gp_with_log_and_fill(IF traces.cpu = <<>> THEN 1 ELSE 2,
                                            other_addr, memory_state, traces, pop.row)
        wr == mem_write_gp_log_and_fill(NUM_GP_CHANNELS - 2, other_addr, traces, rd.row,
                                        pop.vals[1])
        push == stack_push_log_and_fill(pop.registers_state, traces, wr.row, rd.val)
        t1 == push_memory(traces, pop.logs[1])
        t2 == push_memory(t1, rd.log)
        t3 == push_memory(t2, wr.log)
        t4 == push_memory(t3, push.log)
        t5 == push_cpu(t4, push.row)
    IN  Ok(push.registers_state, t5)

\* variant: the write to the target slot goes through to the memory before
\* the target slot is read
generate_swap_read_sees_write(n, registers_state, memory_state, traces, row) ==
    \* stack_len.checked_sub(2 + n)
    IF registers_state.stack_len < 2 + n
    THEN Err("StackUnderflow", registers_state, traces)
    ELSE
    LET other_addr_lo == registers_state.stack_len - (2 + n)
        other_addr == <<registers_state.context, SegmentStack, other_addr_lo>>
        pop == stack_pop_with_log_and_fill(1, registers_state, memory_state, traces, row)
    IN  IF ~pop.ok THEN Err(pop.error, pop.registers_state, traces)
        ELSE
        LET in0 == pop.vals[1]
            rd == mem_read_gp_with_log_and_fill(
                      1, other_addr, MemSet(memory_state, other_addr, in0), traces, pop.row)
            in1 == rd.val
            wr == mem_write_gp_log_and_fill(NUM_GP_CHANNELS - 2, other_addr, traces, rd.row, in0)
            push == stack_push_log_and_fill(pop.registers_state, traces, wr.row, in1)
        IN  IF ~push.ok THEN Err(push.error, push.registers_state, traces)
            ELSE
            LET t1 == push_memory(traces, pop.logs[1])
                t2 == push_memory(t1, rd.log)
                t3 == push_memory(t2, wr.log)
                t4 == push_memory(t3, push.log)
                t5 == push_cpu(t4, push.row)
            IN  Ok(push.registers_state, t5)

generate_swap(n, registers_state, memory_state, traces, row) ==
    \* stack_len.checked_sub(2 + n)
    IF registers_state.stack_len < 2 + n
    THEN Err("StackUnderflow", registers_state, traces)
    ELSE
    LET other_addr_lo == registers_state.stack_len - (2 + n)
        other_addr == <<registers_state.context, SegmentStack, other_addr_lo>>
        pop == stack_pop_with_log_and_fill(1, registers_state, memory_state, traces, row)
    IN  IF ~pop.ok THEN Err(pop.error, pop.registers_state, traces)
        ELSE
        LET in0 == pop.vals[1]
            rd == mem_read_gp_with_log_and_fill(1, other_addr, memory_state, traces, pop.row)
            in1 == rd.val
            wr == mem_write_gp_log_and_fill(NUM_GP_CHANNELS - 2, other_addr, traces, rd.row, in0)
            push == stack_push_log_and_fill(pop.registers_state, traces, wr.row, in1)
        IN  IF ~push.ok THEN Err(push.error, push.registers_state, traces)
            ELSE
            LET t1 == push_memory(traces, pop.logs[1])
                t2 == push_memory(t1, rd.log)
                t3 == push_memory(t2, wr.log)
                t4 == push_memory(t3, push.log)
                t5 == push_cpu(t4, push.row)
            IN  Ok(push.registers_state, t5)

\* variant: only the low u64 limb is complemented
generate_not_low_limb(registers_state, memory_state, traces, row) ==
    LET pop == stack_pop_with_log_and_fill(1, registers_state, memory_state, traces, row)
    IN  IF ~pop.ok THEN Err(pop.error, pop.registers_state, traces)
        ELSE
        LET x == pop.vals[1]
            result == [i \in 1..WordLimbs |-> IF i <= 4 THEN BitNot(x)[i] ELSE x[i]]
            push == stack_push_log_and_fill(pop.registers_state, traces, pop.row, result)
            t1 == push_memory(traces, pop.logs[1])
            t2 == push_memory(t1, push.log)
            t3 == push_cpu(t2, push.row)
        IN  Ok(push.registers_state, t3)

\* variant: the handler advances the program counter by one
generate_not_advances_pc(registers_state, memory_state, traces, row) ==
    LET pop == stack_pop_with_log_and_fill(1, registers_state, memory_state, traces, row)
    IN  IF ~pop.ok THEN Err(pop.error, pop.registers_state, traces)
        ELSE
        LET push == stack_push_log_and_fill(pop.registers_state, traces, pop.row,
                                            BitNot(pop.vals[1]))
            registers_out ==
                [push.registers_state EXCEPT
                    !.program_counter =
                        [l \in 1..U32Limbs |-> IF l = 1 THEN (@[1] + 1) % LimbBase ELSE @[l]]]
            t1 == push_memory(traces, pop.logs[1])
            t2 == push_memory(t1, push.log)
            t3 == push_cpu(t2, push.row)
        IN  Ok(registers_out, t3)

generate_not(registers_state, memory_state, traces, row) ==
    LET pop == stack_pop_with_log_and_fill(1, registers_state, memory_state, traces, row)
    IN  IF ~pop.ok THEN Err(pop.error, pop.registers_state, traces)
        ELSE
        LET x == pop.vals[1]
            result == BitNot(x)
            push == stack_push_log_and_fill(pop.registers_state, traces, pop.row, result)
        IN  IF ~push.ok THEN Err(push.error, push.registers_state, traces)
            ELSE
            LET t1 == push_memory(traces, pop.logs[1])
                t2 == push_memory(t1, push.log)
                t3 == push_cpu(t2, push.row)
            IN  Ok(push.registers_state, t3)

\* the call of cpu::simple_logic::eq_iszero::generate_pinv_diff on the row.
\* The field elements it writes are computed outside this file and are not
\* modelled: the row keeps that the call was made and on which arguments.
generate_pinv_diff(val0, val1, row) ==
    [row EXCEPT !.diff_pinv = [written |-> TRUE, val0 |-> val0, val1 |-> val1]]

\* variant: only the low u64 limb of the operand is tested
generate_iszero_low_limb(registers_state, memory_state, traces, row) ==
    LET pop == stack_pop_with_log_and_fill(1, registers_state, memory_state, traces, row)
    IN  IF ~pop.ok THEN Err(pop.error, pop.registers_state, traces)
        ELSE
        LET x == pop.vals[1]
            is_zero == \A i \in 1..4 : x[i] = 0
            result == U256FromBool(is_zero)
            push == stack_push_log_and_fill(pop.registers_state, traces, pop.row, result)
            row1 == generate_pinv_diff(x, U256Zero, push.row)
            t1 == push_memory(traces, pop.logs[1])
            t2 == push_memory(t1, push.log)
            t3 == push_cpu(t2, row1)
        IN  Ok(push.registers_state, t3)

generate_iszero(registers_state, memory_state, traces, row) ==
    LET pop == stack_pop_with_log_and_fill(1, registers_state, memory_state, traces, row)
    IN  IF ~pop.ok THEN Err(pop.error, pop.registers_state, traces)
        ELSE
        LET x == pop.vals[1]
            is_zero == (x = U256Zero)
            result == U256FromBool(is_zero)
            push == stack_push_log_and_fill(pop.registers_state, traces, pop.row, result)
        IN  IF ~push.ok THEN Err(push.error, push.registers_state, traces)
            ELSE
            LET row1 == generate_pinv_diff(x, U256Zero, push.row)
                t1 == push_memory(traces, pop.logs[1])
                t2 == push_memory(t1, push.log)
                t3 == push_cpu(t2, row1)
            IN  Ok(push.registers_state, t3)

\* variant: the three bytes assembled little-endian
handler_addr_little_endian(handler_addr0, handler_addr1, handler_addr2) ==
    LET sum01 == overflowing_add(Shl(handler_addr2, 16), Shl(handler_addr1, 8))
        sum012 == overflowing_add(sum01.value, handler_addr0)
    IN  [value |-> sum012.value,
         panics |-> sum01.overflow \/ sum012.overflow \/ ~FitsU32(sum012.value)]

\* variant: the first byte is shifted by 24 bits
handler_addr_wide_shift(handler_addr0, handler_addr1, handler_addr2) ==
    LET sum01 == overflowing_add(Shl(handler_addr0, 24), Shl(handler_addr1, 8))
        sum012 == overflowing_add(sum01.value, handler_addr2)
    IN  [value |-> sum012.value,
         panics |-> sum01.overflow \/ sum012.overflow \/ ~FitsU32(sum012.value)]

\* (handler_addr0 << 16) + (handler_addr1 << 8) + handler_addr2, then as_u32:
\* each + panics on overflow, and as_u32 panics above u32::MAX
handler_addr_of(handler_addr0, handler_addr1, handler_addr2) ==
    LET sum01 == overflowing_add(Shl(handler_addr0, 16), Shl(handler_addr1, 8))
        sum012 == overflowing_add(sum01.value, handler_addr2)
    IN  [value |-> sum012.value,
         panics |-> sum01.overflow \/ sum012.overflow \/ ~FitsU32(sum012.value)]

\* variant: the third read is skipped when the first two bytes are zero
generate_syscall_short_read(opcode, registers_state, memory_state, traces, row) ==
    LET handler_addr_addr == SyscallJumptable + opcode
        rd0 == mem_read_gp_with_log_and_fill(
                   0, <<0, SegmentCode, handler_addr_addr>>, memory_state, traces, row)
        rd1 == mem_read_gp_with_log_and_fill(
                   1, <<0, SegmentCode, handler_addr_addr + 1>>, memory_state, traces, rd0.row)
        rd2 == mem_read_gp_with_log_and_fill(
                   2, <<0, SegmentCode, handler_addr_addr + 2>>, memory_state, traces, rd1.row)
        skip == rd0.val = U256Zero /\ rd1.val = U256Zero
        handler_addr == handler_addr_of(rd0.val, rd1.val, rd2.val)
    IN  IF handler_addr.panics
        THEN Panic(registers_state, traces)
        ELSE
        LET syscall_info ==
                overflowing_add(U256FromU32(registers_state.program_counter),
                                Shl(U256FromBool(registers_state.is_kernel), 32)).value
            push == stack_push_log_and_fill(registers_state, traces, rd2.row, syscall_info)
            registers_out ==
                [push.registers_state EXCEPT
                    !.program_counter = LowU32(handler_addr.value), !.is_kernel = TRUE]
            t1 == push_memory(traces, rd0.log)
            t2 == push_memory(t1, rd1.log)
            t3 == IF skip THEN t2 ELSE push_memory(t2, rd2.log)
            t4 == push_memory(t3, push.log)
            t5 == push_cpu(t4, push.row)
        IN  Ok(registers_out, t5)

\* variant: the return word is packed after the registers were updated
generate_syscall_info_after_update(opcode, registers_state, memory_state, traces, row) ==
    LET handler_addr_addr == SyscallJumptable + opcode
        rd0 == mem_read_gp_with_log_and_fill(
                   0, <<0, SegmentCode, handler_addr_addr>>, memory_state, traces, row)
        rd1 == mem_read_gp_with_log_and_fill(
                   1, <<0, SegmentCode, handler_addr_addr + 1>>, memory_state, traces, rd0.row)
        rd2 == mem_read_gp_with_log_and_fill(
                   2, <<0, SegmentCode, handler_addr_addr + 2>>, memory_state, traces, rd1.row)
        handler_addr == handler_addr_of(rd0.val, rd1.val, rd2.val)
    IN  IF handler_addr.panics
        THEN Panic(registers_state, traces)
        ELSE
        LET syscall_info ==
                overflowing_add(U256FromU32(LowU32(handler_addr.value)),
                                Shl(U256FromBool(TRUE), 32)).value
            push == stack_push_log_and_fill(registers_state, traces, rd2.row, syscall_info)
            registers_out ==
                [push.registers_state EXCEPT
                    !.program_counter = LowU32(handler_addr.value), !.is_kernel = TRUE]
            t1 == push_memory(traces, rd0.log)
            t2 == push_memory(t1, rd1.log)
            t3 == push_memory(t2, rd2.log)
            t4 == push_memory(t3, push.log)
            t5 == push_cpu(t4, push.row)
        IN  Ok(registers_out, t5)

\* variant: the jump table is read from the code segment of the current
\* context
generate_syscall_table_in_context(opcode, registers_state, memory_state, traces, row) ==
    LET handler_jumptable_addr == SyscallJumptable
        handler_addr_addr == handler_jumptable_addr + opcode
        rd0 == mem_read_gp_with_log_and_fill(
                   0, <<registers_state.context, SegmentCode, handler_addr_addr>>, memory_state, traces, row)
        rd1 == mem_read_gp_with_log_and_fill(
                   1, <<registers_state.context, SegmentCode, handler_addr_addr + 1>>, memory_state, traces, rd0.row)
        rd2 == mem_read_gp_with_log_and_fill(
                   2, <<registers_state.context, SegmentCode, handler_addr_addr + 2>>, memory_state, traces, rd1.row)
        handler_addr == handler_addr_of(rd0.val, rd1.val, rd2.val)
    IN  IF handler_addr.panics
        THEN Panic(registers_state, traces)
        ELSE
        LET new_program_counter == LowU32(handler_addr.value)
            syscall_info ==
                overflowing_add(U256FromU32(registers_state.program_counter),
                                Shl(U256FromBool(registers_state.is_kernel), 32)).value
            push == stack_push_log_and_fill(registers_state, traces, rd2.row, syscall_info)
        IN  IF ~push.ok THEN Err(push.error, push.registers_state, traces)
            ELSE
            LET registers_out ==
                    [push.registers_state EXCEPT
                        !.program_counter = new_program_counter,
                        !.is_kernel = TRUE]
                t1 == push_memory(traces, rd0.log)
                t2 == push_memory(t1, rd1.log)
                t3 == push_memory(t2, rd2.log)
                t4 == push_memory(t3, push.log)
                t5 == push_cpu(t4, push.row)
            IN  Ok(registers_out, t5)

generate_syscall(opcode, registers_state, memory_state, traces, row) ==
    LET handler_jumptable_addr == SyscallJumptable
        handler_addr_addr == handler_jumptable_addr + opcode
        rd0 == mem_read_gp_with_log_and_fill(
                   0, <<0, SegmentCode, handler_addr_addr>>, memory_state, traces, row)
        rd1 == mem_read_gp_with_log_and_fill(
                   1, <<0, SegmentCode, handler_addr_addr + 1>>, memory_state, traces, rd0.row)
        rd2 == mem_read_gp_with_log_and_fill(
                   2, <<0, SegmentCode, handler_addr_addr + 2>>, memory_state, traces, rd1.row)
        handler_addr == handler_addr_of(rd0.val, rd1.val, rd2.val)
    IN  IF handler_addr.panics
        THEN Panic(registers_state, traces)
        ELSE
        LET new_program_counter == LowU32(handler_addr.value)
            syscall_info ==
                overflowing_add(U256FromU32(registers_state.program_counter),
                                Shl(U256FromBool(registers_state.is_kernel), 32)).value
            push == stack_push_log_and_fill(registers_state, traces, rd2.row, syscall_info)
        IN  IF ~push.ok THEN Err(push.error, push.registers_state, traces)
            ELSE
            LET registers_out ==
                    [push.registers_state EXCEPT
                        !.program_counter = new_program_counter,
                        !.is_kernel = TRUE]
                t1 == push_memory(traces, rd0.log)
                t2 == push_memory(t1, rd1.log)
                t3 == push_memory(t2, rd2.log)
                t4 == push_memory(t3, push.log)
                t5 == push_cpu(t4, push.row)
            IN  Ok(registers_out, t5)

\* variant: only the low u64 limbs of the operands are compared
generate_eq_low_limb(registers_state, memory_state, traces, row) ==
    LET pop == stack_pop_with_log_and_fill(2, registers_state, memory_state, traces, row)
    IN  IF ~pop.ok THEN Err(pop.error, pop.registers_state, traces)
        ELSE
        LET in0 == pop.vals[1]
            in1 == pop.vals[2]
            eq == \A i \in 1..4 : in0[i] = in1[i]
            result == U256FromBool(eq)
            push == stack_push_log_and_fill(pop.registers_state, traces, pop.row, result)
            row1 == generate_pinv_diff(in0, in1, push.row)
            t1 == push_memory(traces, pop.logs[1])
            t2 == push_memory(t1, pop.logs[2])
            t3 == push_memory(t2, push.log)
            t4 == push_cpu(t3, row1)
        IN  Ok(push.registers_state, t4)

generate_eq(registers_state, memory_state, traces, row) ==
    LET pop == stack_pop_with_log_and_fill(2, registers_state, memory_state, traces, row)
    IN  IF ~pop.ok THEN Err(pop.error, pop.registers_state, traces)
        ELSE
        LET in0 == pop.vals[1]
            in1 == pop.vals[2]
            eq == (in0 = in1)
            result == U256FromBool(eq)
            push == stack_push_log_and_fill(pop.registers_state, traces, pop.row, result)
        IN  IF ~push.ok THEN Err(push.error, push.registers_state, traces)
            ELSE
            LET row1 == generate_pinv_diff(in0, in1, push.row)
                t1 == push_memory(traces, pop.logs[1])
                t2 == push_memory(t1, pop.logs[2])
                t3 == push_memory(t2, push.log)
                t4 == push_cpu(t3, row1)
            IN  Ok(push.registers_state, t4)

\* variant: the CPU row is put in front of the rows the sink holds
generate_exit_kernel_row_in_front(registers_state, memory_state, traces, row) ==
    LET pop == stack_pop_with_log_and_fill(1, registers_state, memory_state, traces, row)
    IN  IF ~pop.ok THEN Err(pop.error, pop.registers_state, traces)
        ELSE
        LET kexit_info == pop.vals[1]
            is_kernel_mode_val == LimbHighU32(kexit_info, 1)
        IN  IF ~(is_kernel_mode_val = U32Zero \/ is_kernel_mode_val = U32One)
            THEN Panic(pop.registers_state, traces)
            ELSE
            LET registers_out ==
                    [pop.registers_state EXCEPT
                        !.program_counter = LimbLowU32(kexit_info, 0),
                        !.is_kernel = (is_kernel_mode_val # U32Zero)]
                t1 == push_memory(traces, pop.logs[1])
                t2 == [t1 EXCEPT !.cpu = <<pop.row>> \o @, !.calls = Append(@, "cpu")]
            IN  Ok(registers_out, t2)

generate_exit_kernel(registers_state, memory_state, traces, row) ==
    LET pop == stack_pop_with_log_and_fill(1, registers_state, memory_state, traces, row)
    IN  IF ~pop.ok THEN Err(pop.error, pop.registers_state, traces)
        ELSE
        LET kexit_info == pop.vals[1]
            \* kexit_info_u64[0] as u32
            program_counter == LimbLowU32(kexit_info, 0)
            \* (kexit_info_u64[1] >> 32) as u32
            is_kernel_mode_val == LimbHighU32(kexit_info, 1)
        IN  IF ~(is_kernel_mode_val = U32Zero \/ is_kernel_mode_val = U32One)
            THEN Panic(pop.registers_state, traces)
            ELSE
            LET is_kernel_mode == (is_kernel_mode_val # U32Zero)
                registers_out ==
                    [pop.registers_state EXCEPT
                        !.program_counter = program_counter,
                        !.is_kernel = is_kernel_mode]
                t1 == push_memory(traces, pop.logs[1])
                t2 == push_cpu(t1, pop.row)
            IN  Ok(registers_out, t2)

\* ------------------------------------------------------------------------
\* State
\* ------------------------------------------------------------------------
VARIABLES
    registers,  \* RegistersState of the caller
    memory,     \* MemoryState
    traces,     \* Traces
    hist,       \* one record per handler invocation so far
    aborted     \* a handler panicked

vars == <<registers, memory, traces, hist, aborted>>

\* Operation
OpDup(n) == [kind |-> "Dup", n |-> n, logic |-> ""]
OpSwap(n) == [kind |-> "Swap", n |-> n, logic |-> ""]
OpIszero == [kind |-> "Iszero", n |-> 0, logic |-> ""]
OpNot == [kind |-> "Not", n |-> 0, logic |-> ""]
OpSyscall(opcode) == [kind |-> "Syscall", n |-> opcode, logic |-> ""]
OpEq == [kind |-> "Eq", n |-> 0, logic |-> ""]
OpExitKernel == [kind |-> "ExitKernel", n |-> 0, logic |-> ""]
OpBinaryLogic(op) == [kind |-> "BinaryLogic", n |-> 0, logic |-> op]

BinaryLogicOps == {"And", "Or", "Xor"}
Args == 0..MaxArg

\* the rows a call appended to a list that held `before` rows
Appended(before, after) == SubSeq(after, before + 1, Len(after))

\* The caller's side of one invocation that returned r: on Ok the caller
\* takes the returned registers and the logged writes reach the memory; on
\* Err the caller keeps its registers; a panic ends the run.
Commit(op, r) ==
    \E registers_out \in {IF r.tag = "Ok" THEN r.registers_state ELSE registers} :
    \E memory_out \in
           {IF r.tag = "Ok"
            THEN ApplyOps(memory, Appended(Len(traces.memory), r.traces.memory))
            ELSE memory} :
        /\ registers' = registers_out
        /\ memory' = memory_out
        /\ traces' = r.traces
        /\ aborted' = (r.tag = "Panic")
        /\ hist' = Append(hist,
               [op |-> op, tag |-> r.tag, error |-> r.error,
                registers |-> registers, memory |-> memory,
                n_cpu |-> Len(traces.cpu), n_memory |-> Len(traces.memory),
                n_logic |-> Len(traces.logic),
                registers_out |-> registers_out, memory_out |-> memory_out,
                n_cpu_out |-> Len(r.traces.cpu),
                n_memory_out |-> Len(r.traces.memory),
                n_logic_out |-> Len(r.traces.logic)])

\* a handler may be invoked while the run has not aborted and fewer than
\* `limit` invocations have been made
CanStep(limit) == ~aborted /\ Len(hist) < limit

\* The actions: the handler runs on a copy of the registers, a read-only
\* memory view and a fresh row.
Dup(limit) ==
    \E n \in Args :
        /\ CanStep(limit)
        /\ \E r \in {generate_dup(n, registers, memory, traces, EmptyRow)} :
               Commit(OpDup(n), r)

Swap(limit) ==
    \E n \in Args :
        /\ CanStep(limit)
        /\ \E r \in {generate_swap(n, registers, memory, traces, EmptyRow)} :
               Commit(OpSwap(n), r)

Iszero(limit) ==
    /\ CanStep(limit)
    /\ \E r \in {generate_iszero(registers, memory, traces, EmptyRow)} :
           Commit(OpIszero, r)

Not(limit) ==
    /\ CanStep(limit)
    /\ \E r \in {generate_not(registers, memory, traces, EmptyRow)} :
           Commit(OpNot, r)

Syscall(limit) ==
    \E opcode \in Args :
        /\ CanStep(limit)
        /\ \E r \in {generate_syscall(opcode, registers, memory, traces, EmptyRow)} :
               Commit(OpSyscall(opcode), r)

Eq(limit) ==
    /\ CanStep(limit)
    /\ \E r \in {generate_eq(registers, memory, traces, EmptyRow)} :
           Commit(OpEq, r)

ExitKernel(limit) ==
    /\ CanStep(limit)
    /\ \E r \in {generate_exit_kernel(registers, memory, traces, EmptyRow)} :
           Commit(OpExitKernel, r)

BinaryLogic(limit) ==
    \E op \in BinaryLogicOps :
        /\ CanStep(limit)
        /\ \E r \in {generate_binary_logic_op(op, registers, memory, traces, EmptyRow)} :
               Commit(OpBinaryLogic(op), r)

\* ------------------------------------------------------------------------
\* Initial states
\* ------------------------------------------------------------------------
\* the word of a number below 65536
FromNat(n) == WordAt(0, n)
\* the u32 with low half lo and high half hi
U32Of(lo, hi) == [i \in 1..U32Limbs |-> IF i = 1 THEN lo ELSE hi]

\* all sequences over S of length at most n
RECURSIVE SeqsUpTo(_, _)
SeqsUpTo(S, n) ==
    IF n = 0 THEN {<<>>}
    ELSE LET shorter == SeqsUpTo(S, n - 1)
         IN  shorter \cup {Append(q, w) : q \in {t \in shorter : Len(t) = n - 1}, w \in S}

\* words of the code segment from the jump table on: bytes, and words that
\* are not bytes
CodeCells ==
    << FromNat(1), FromNat(255), FromNat(18), BitOr(WordAt(15, 1), FromNat(1)),
       FromNat(52), FromNat(86), FromNat(256), FromNat(120), FromNat(154), U256Max,
       FromNat(32768), FromNat(3), WordAt(1, 1), FromNat(7), U256Zero, U256Zero >>

\* jump table number k: the code cell at SyscallJumptable + j holds
\* CodeCells[k + j + 1], cyclically
Tables == 0..(Len(CodeCells) - 1)
TableCell(k, j) == CodeCells[((k + j) % Len(CodeCells)) + 1]

\* the memory holding `stack` in the stack segment of `context` and jump
\* table k in the code segment of context 0
InitMemory(context, stack, k) ==
    [a \in {<<context, SegmentStack, i - 1>> : i \in 1..Len(stack)}
           \cup {<<0, SegmentCode, SyscallJumptable + j>> : j \in 0..(MaxArg + 2)} |->
        IF a[2] = SegmentStack THEN stack[a[3] + 1]
        ELSE TableCell(k, a[3] - SyscallJumptable)]

InitWith(context, is_kernel, program_counter, stack, k) ==
    /\ registers = [context |-> context, is_kernel |-> is_kernel,
                    program_counter |-> program_counter, stack_len |-> Len(stack)]
    /\ memory = InitMemory(context, stack, k)
    /\ traces = EmptyTraces
    /\ hist = <<>>
    /\ aborted = FALSE

\* operands of the stack and logic handlers
StackWords == {FromNat(3), FromNat(5), BitOr(WordAt(15, 32768), WordAt(4, 6))}
\* packed return words, well formed and not
KexitWords ==
    { FromNat(17), BitOr(FromNat(17), WordAt(2, 1)),
      BitOr(WordAt(1, 32768), WordAt(2, 1)), BitOr(FromNat(2), WordAt(2, 2)),
      BitOr(FromNat(8), WordAt(6, 1)), BitOr(FromNat(4), WordAt(6, 2)) }
ProgramCounters == {U32Of(34, 0), U32Of(1, 32768)}

InitStack ==
    \E stack \in SeqsUpTo(StackWords, MaxStack) :
        InitWith(1, FALSE, U32Of(34, 0), stack, 0)

InitKernel ==
    \E context \in {0, 1}, is_kernel \in BOOLEAN, program_counter \in ProgramCounters,
       stack \in SeqsUpTo(KexitWords, 1), k \in Tables :
        InitWith(context, is_kernel, program_counter, stack, k)

\* a few stacks for runs that use every handler
InitSmall ==
    \E stack \in SeqsUpTo({FromNat(5), BitOr(FromNat(17), WordAt(2, 1))}, MaxStack) :
        InitWith(1, FALSE, U32Of(34, 0), stack, 0)

\* ------------------------------------------------------------------------
\* Specifications
\* ------------------------------------------------------------------------
\* any handlers, MaxSteps invocations in a row
Init == InitSmall
Next ==
    \/ Dup(MaxSteps)
    \/ Swap(MaxSteps)
    \/ Iszero(MaxSteps)
    \/ Not(MaxSteps)
    \/ Syscall(MaxSteps)
    \/ Eq(MaxSteps)
    \/ ExitKernel(MaxSteps)
    \/ BinaryLogic(MaxSteps)
Spec == Init /\ [][Next]_vars

\* one invocation of any handler, on every input of both families
InitStep == InitStack \/ InitKernel
NextStep ==
    \/ Dup(1)
    \/ Swap(1)
    \/ Iszero(1)
    \/ Not(1)
    \/ Syscall(1)
    \/ Eq(1)
    \/ ExitKernel(1)
    \/ BinaryLogic(1)
SpecStep == InitStep /\ [][NextStep]_vars

\* the stack handlers, MaxSteps invocations in a row
NextStack ==
    \/ Dup(MaxSteps)
    \/ Swap(MaxSteps)
    \/ Iszero(MaxSteps)
    \/ Not(MaxSteps)
    \/ Eq(MaxSteps)
    \/ BinaryLogic(MaxSteps)
SpecStack == InitStack /\ [][NextStack]_vars

\* kernel entry and exit, MaxSteps invocations in a row
NextKernel ==
    \/ Syscall(MaxSteps)
    \/ ExitKernel(MaxSteps)
SpecKernel == InitKernel /\ [][NextKernel]_vars

\* ------------------------------------------------------------------------
\* Reading the record of the invocations
\* ------------------------------------------------------------------------
Entries == 1..Len(hist)

\* the word in stack slot `off` of the current context before and after the
\* invocation h
SlotBefore(h, off) == MemGet(h.memory, <<h.registers.context, SegmentStack, off>>)
SlotAfter(h, off) == MemGet(h.memory_out, <<h.registers_out.context, SegmentStack, off>>)
HeightBefore(h) == h.registers.stack_len
HeightAfter(h) == h.registers_out.stack_len

\* the memory logs the invocation h appended
LogsOf(h) == SubSeq(traces.memory, h.n_memory + 1, h.n_memory_out)

Succeeded(h, kind) == h.op.kind = kind /\ h.tag = "Ok"

\* natural numbers wider than a word, as limb sequences two limbs longer
NatLimbs == WordLimbs + 2
Widen(x) == [i \in 1..NatLimbs |-> IF i <= Len(x) THEN x[i] ELSE 0]
NatTimesPow2(x, k) == ShlN(x, k, NatLimbs)
NatPlus(a, b) == SubSeq(AddLimbs(a, b, 1, NatLimbs, 0), 1, NatLimbs)
NatMod2To256(x) == [i \in 1..NatLimbs |-> IF i <= WordLimbs THEN x[i] ELSE 0]

\* ------------------------------------------------------------------------
\* C1
\* ------------------------------------------------------------------------
\* a packed return word as Syscall pushes it: P + 2^32 * b with b in {0, 1}
IsPackedReturnWord(w) == w[3] \in {0, 1} /\ \A i \in 4..WordLimbs : w[i] = 0

\* C1: when the word ExitKernel pops has low 32 bits P, bit 32 equal to b and
\* all higher bits zero, ExitKernel returns program_counter = P and
\* is_kernel = (b = 1).
C1_ExitKernelDecodesSyscallEncoding ==
    \A i \in Entries :
        LET h == hist[i]
            w == SlotBefore(h, HeightBefore(h) - 1)
        IN  (h.op.kind = "ExitKernel" /\ HeightBefore(h) >= 1 /\ IsPackedReturnWord(w))
            => /\ h.tag = "Ok"
               /\ h.registers_out.program_counter = LowU32(w)
               /\ h.registers_out.is_kernel = (w[3] = 1)

\* ------------------------------------------------------------------------
\* C2
\* ------------------------------------------------------------------------
\* the word Syscall reads at base + opcode + j
JumpCell(h, j) == MemGet(h.memory, <<0, SegmentCode, SyscallJumptable + h.op.n + j>>)

\* C2 as stated: a successful Syscall returns is_kernel = true and
\* program_counter = b0 * 65536 + b1 * 256 + b2 for the three words read.
C2_SyscallAssemblesProduct ==
    \A i \in Entries :
        LET h == hist[i]
        IN  Succeeded(h, "Syscall")
            => /\ h.registers_out.is_kernel = TRUE
               /\ Widen(h.registers_out.program_counter)
                    = NatPlus(NatPlus(NatTimesPow2(JumpCell(h, 0), 16),
                                      NatTimesPow2(JumpCell(h, 1), 8)),
                              Widen(JumpCell(h, 2)))

\* C2 amended: a successful Syscall returns is_kernel = true and
\* program_counter = (b0 * 65536 mod 2^256) + (b1 * 256 mod 2^256) + b2, which
\* is b0 * 65536 + b1 * 256 + b2 whenever b0 < 2^240 and b1 < 2^248, whatever
\* the previous is_kernel and program_counter.
C2_SyscallAssemblesShiftedWords ==
    \A i \in Entries :
        LET h == hist[i]
        IN  Succeeded(h, "Syscall")
            => /\ h.registers_out.is_kernel = TRUE
               /\ Widen(h.registers_out.program_counter)
                    = NatPlus(NatPlus(NatMod2To256(NatTimesPow2(JumpCell(h, 0), 16)),
                                      NatMod2To256(NatTimesPow2(JumpCell(h, 1), 8))),
                              Widen(JumpCell(h, 2)))

\* a Syscall from user mode succeeded on three bytes, the first not zero
C2_Witness ==
    \E i \in Entries :
        LET h == hist[i]
        IN  /\ Succeeded(h, "Syscall")
            /\ ~h.registers.is_kernel
            /\ \A j \in 0..2 : JumpCell(h, j)[1] < 256
                               /\ \A l \in 2..WordLimbs : JumpCell(h, j)[l] = 0
            /\ JumpCell(h, 0) # U256Zero
            /\ h.registers_out.program_counter # h.registers.program_counter

\* ------------------------------------------------------------------------
\* C3
\* ------------------------------------------------------------------------
\* C3: a successful Syscall appends exactly four memory logs: the reads of
\* the code segment of context 0 at base + opcode, + 1, + 2 on channels 0, 1,
\* 2, in this order, then one write to the stack slot at the old stack_len.
C3_SyscallLogsThreeReadsOnePush ==
    \A i \in Entries :
        LET h == hist[i]
            logs == LogsOf(h)
        IN  Succeeded(h, "Syscall")
            => /\ Len(logs) = 4
               /\ \A j \in 0..2 :
                      logs[j + 1] =
                          MemoryOp(j, h.n_cpu,
                                   <<0, SegmentCode, SyscallJumptable + h.op.n + j>>,
                                   TRUE, JumpCell(h, j))
               /\ ~logs[4].is_read
               /\ logs[4].address = <<h.registers.context, SegmentStack, HeightBefore(h)>>

\* a Syscall succeeded although the first two words it read are zero, with a
\* word on the stack
C3_Witness ==
    \E i \in Entries :
        LET h == hist[i]
        IN  /\ Succeeded(h, "Syscall")
            /\ JumpCell(h, 0) = U256Zero
            /\ JumpCell(h, 1) = U256Zero
            /\ HeightBefore(h) >= 1

\* ------------------------------------------------------------------------
\* C4
\* ------------------------------------------------------------------------
\* C4: whenever a handler returns an error, the sink has received no CPU
\* row, no memory log and no logic row from that call, and the caller's
\* registers are the same as before the call.
C4_ErrLeavesSinkAndRegisters ==
    \A i \in Entries :
        LET h == hist[i]
        IN  h.tag = "Err"
            => /\ h.n_cpu_out = h.n_cpu
               /\ h.n_memory_out = h.n_memory
               /\ h.n_logic_out = h.n_logic
               /\ h.registers_out = h.registers

\* a Swap failed on a stack that is not empty, after a step that had
\* appended rows
C4_Witness ==
    \E i \in Entries :
        LET h == hist[i]
        IN  /\ h.tag = "Err"
            /\ h.op.kind = "Swap"
            /\ HeightBefore(h) >= 1
            /\ h.n_cpu >= 1

\* ------------------------------------------------------------------------
\* C5
\* ------------------------------------------------------------------------
\* the stack depth an operation needs
RequiredDepth(op) ==
    CASE op.kind = "Dup" -> op.n + 1
      [] op.kind = "Swap" -> op.n + 2
      [] op.kind \in {"BinaryLogic", "Eq"} -> 2
      [] op.kind \in {"Not", "Iszero", "ExitKernel"} -> 1
      [] op.kind = "Syscall" -> 0

\* C5: a handler fails with StackUnderflow exactly when stack_len is below
\* the depth it needs (Dup n+1, Swap n+2, BinaryLogic and Eq 2, Not, Iszero
\* and ExitKernel 1, Syscall never); a failed Dup or Swap has made no read,
\* pop or push.
C5_UnderflowExactlyBelowDepth ==
    \A i \in Entries :
        LET h == hist[i]
        IN  /\ (h.tag = "Err" /\ h.error = "StackUnderflow")
                   <=> (HeightBefore(h) < RequiredDepth(h.op))
            /\ (h.tag = "Err" /\ h.op.kind \in {"Dup", "Swap"})
                   => (h.n_memory_out = h.n_memory /\ h.n_cpu_out = h.n_cpu)

\* Swap(1) failed on a stack of two words
C5_Witness ==
    \E i \in Entries :
        LET h == hist[i]
        IN  /\ h.tag = "Err"
            /\ h.error = "StackUnderflow"
            /\ h.op.kind = "Swap"
            /\ h.op.n = 1
            /\ HeightBefore(h) = 2

\* ------------------------------------------------------------------------
\* C6
\* ------------------------------------------------------------------------
\* C6: a successful Dup(n) increases stack_len by exactly 1, leaves every
\* slot below the new top unchanged, and the new top (offset old stack_len)
\* is the word that was at offset old stack_len - 1 - n; the source is read,
\* not popped.
C6_DupCopiesSlotAtDepth ==
    \A i \in Entries :
        LET h == hist[i]
            logs == LogsOf(h)
        IN  Succeeded(h, "Dup")
            => /\ HeightBefore(h) >= h.op.n + 1
               /\ HeightAfter(h) = HeightBefore(h) + 1
               /\ \A off \in 0..(HeightBefore(h) - 1) : SlotAfter(h, off) = SlotBefore(h, off)
               /\ SlotAfter(h, HeightBefore(h)) = SlotBefore(h, HeightBefore(h) - 1 - h.op.n)
               /\ Len(logs) = 2
               /\ logs[1].is_read
               /\ logs[1].address =
                      <<h.registers.context, SegmentStack, HeightBefore(h) - 1 - h.op.n>>
               /\ ~logs[2].is_read

\* Dup(1) succeeded on a stack whose two top words differ
C6_Witness ==
    \E i \in Entries :
        LET h == hist[i]
        IN  /\ Succeeded(h, "Dup")
            /\ h.op.n = 1
            /\ SlotBefore(h, HeightBefore(h) - 1) # SlotBefore(h, HeightBefore(h) - 2)

\* ------------------------------------------------------------------------
\* C7
\* ------------------------------------------------------------------------
\* C7: a successful Swap(n) leaves stack_len unchanged, and two successful
\* Swap(n) in a row, each with its logged writes applied, restore every
\* stack slot.
C7_SwapTwiceRestores ==
    /\ \A i \in Entries :
           Succeeded(hist[i], "Swap")
           => /\ HeightBefore(hist[i]) >= hist[i].op.n + 2
              /\ HeightAfter(hist[i]) = HeightBefore(hist[i])
    /\ \A i \in Entries :
           (/\ i + 1 \in Entries
            /\ Succeeded(hist[i], "Swap")
            /\ Succeeded(hist[i + 1], "Swap")
            /\ hist[i].op.n = hist[i + 1].op.n)
           => \A off \in 0..(HeightBefore(hist[i]) - 1) :
                  SlotAfter(hist[i + 1], off) = SlotBefore(hist[i], off)

\* Swap(1) ran twice in a row on a stack whose top and third word differ
C7_Witness ==
    \E i \in Entries :
        /\ i + 1 \in Entries
        /\ Succeeded(hist[i], "Swap")
        /\ Succeeded(hist[i + 1], "Swap")
        /\ hist[i].op.n = 1
        /\ hist[i + 1].op.n = 1
        /\ SlotBefore(hist[i], HeightBefore(hist[i]) - 1)
               # SlotBefore(hist[i], HeightBefore(hist[i]) - 3)

\* ------------------------------------------------------------------------
\* C8
\* ------------------------------------------------------------------------
\* bit i of the bitwise op of two words, from the bits of the words
BitOfOp(op, x, y) ==
    CASE op = "And" -> IF x = 1 /\ y = 1 THEN 1 ELSE 0
      [] op = "Or"  -> IF x = 1 \/ y = 1 THEN 1 ELSE 0
      [] op = "Xor" -> IF x # y THEN 1 ELSE 0

\* w is the bitwise op of a and b over all 256 bits
IsBitwise(op, w, a, b) ==
    \A i \in 0..(WordBits - 1) : Bit(w, i) = BitOfOp(op, Bit(a, i), Bit(b, i))

\* C8: a successful BinaryLogic(op) pops the two top words, pushes their
\* bitwise op over all 256 bits and decreases stack_len by exactly 1, the
\* slots below unchanged; on the stack [5, 3] And leaves the stack [1].
C8_BinaryLogicPushesBitwiseOp ==
    \A i \in Entries :
        LET h == hist[i]
            len == HeightBefore(h)
        IN  Succeeded(h, "BinaryLogic")
            => /\ len >= 2
               /\ HeightAfter(h) = len - 1
               /\ IsBitwise(h.op.logic, SlotAfter(h, len - 2),
                            SlotBefore(h, len - 1), SlotBefore(h, len - 2))
               /\ \A off \in 0..(len - 3) : SlotAfter(h, off) = SlotBefore(h, off)
               /\ (/\ len = 2
                   /\ h.op.logic = "And"
                   /\ SlotBefore(h, 0) = FromNat(5)
                   /\ SlotBefore(h, 1) = FromNat(3))
                  => (HeightAfter(h) = 1 /\ SlotAfter(h, 0) = FromNat(1))

\* And ran on the stack [5, 3]
C8_Witness ==
    \E i \in Entries :
        LET h == hist[i]
        IN  /\ Succeeded(h, "BinaryLogic")
            /\ h.op.logic = "And"
            /\ HeightBefore(h) = 2
            /\ SlotBefore(h, 0) = FromNat(5)
            /\ SlotBefore(h, 1) = FromNat(3)

\* ------------------------------------------------------------------------
\* C9
\* ------------------------------------------------------------------------
\* the operands and the result of a successful BinaryLogic invocation
In0(h) == SlotBefore(h, HeightBefore(h) - 1)
In1(h) == SlotBefore(h, HeightBefore(h) - 2)
Out(h) == SlotAfter(h, HeightAfter(h) - 1)

IsXor(h) == Succeeded(h, "BinaryLogic") /\ h.op.logic = "Xor"

\* C9: after Xor on a and b, an Xor of that result with b again leaves a on
\* top; And and Or on two equal operands a, a leave a on top.
C9_XorInvolutionAndOrIdempotent ==
    /\ \A i \in Entries : \A j \in Entries :
           (i < j /\ IsXor(hist[i]) /\ IsXor(hist[j]))
           => LET a == In1(hist[i])
                  b == In0(hist[i])
                  r == Out(hist[i])
                  both == <<In0(hist[j]), In1(hist[j])>>
              IN  /\ (both \in {<<r, b>>, <<b, r>>}) => Out(hist[j]) = a
                  /\ (both \in {<<r, a>>, <<a, r>>}) => Out(hist[j]) = b
    /\ \A i \in Entries :
           (/\ Succeeded(hist[i], "BinaryLogic")
            /\ hist[i].op.logic \in {"And", "Or"}
            /\ In0(hist[i]) = In1(hist[i]))
           => Out(hist[i]) = In0(hist[i])

\* Xor ran on two different words a and b and then on its result and b
C9_Witness ==
    \E i \in Entries :
        /\ i + 1 \in Entries
        /\ IsXor(hist[i])
        /\ IsXor(hist[i + 1])
        /\ In0(hist[i]) # In1(hist[i])
        /\ In0(hist[i + 1]) = Out(hist[i])
        /\ In1(hist[i + 1]) = In0(hist[i])
        /\ Out(hist[i + 1]) = In1(hist[i])

\* ------------------------------------------------------------------------
\* C10
\* ------------------------------------------------------------------------
\* C10: a successful Not replaces the top word by its complement over all
\* 256 bits and leaves stack_len and the lower slots unchanged; two Not in a
\* row restore the top.
C10_NotComplementsAndIsInvolution ==
    /\ \A i \in Entries :
           LET h == hist[i]
               len == HeightBefore(h)
           IN  Succeeded(h, "Not")
               => /\ len >= 1
                  /\ HeightAfter(h) = len
                  /\ \A b \in 0..(WordBits - 1) :
                         Bit(SlotAfter(h, len - 1), b) = 1 - Bit(SlotBefore(h, len - 1), b)
                  /\ \A off \in 0..(len - 2) : SlotAfter(h, off) = SlotBefore(h, off)
    /\ \A i \in Entries :
           (i + 1 \in Entries /\ Succeeded(hist[i], "Not") /\ Succeeded(hist[i + 1], "Not"))
           => SlotAfter(hist[i + 1], HeightBefore(hist[i]) - 1)
                  = SlotBefore(hist[i], HeightBefore(hist[i]) - 1)

\* Not ran twice in a row on a word with bit 255 set, above another word
C10_Witness ==
    \E i \in Entries :
        /\ i + 1 \in Entries
        /\ Succeeded(hist[i], "Not")
        /\ Succeeded(hist[i + 1], "Not")
        /\ HeightBefore(hist[i]) >= 2
        /\ Bit(SlotBefore(hist[i], HeightBefore(hist[i]) - 1), WordBits - 1) = 1

\* ------------------------------------------------------------------------
\* C11
\* ------------------------------------------------------------------------
\* every slot below offset `top` is the same before and after the invocation
LowerSlotsKept(h, top) ==
    \A off \in 0..(top - 1) : SlotAfter(h, off) = SlotBefore(h, off)

\* C11: a successful Iszero replaces the top word x by 1 when x = 0 and by 0
\* for every nonzero x, and leaves stack_len and all lower slots unchanged.
C11_IszeroReplacesTopByFlag ==
    \A i \in Entries :
        LET h == hist[i]
            x == SlotBefore(h, HeightBefore(h) - 1)
        IN  Succeeded(h, "Iszero")
            => /\ HeightAfter(h) = HeightBefore(h)
               /\ SlotAfter(h, HeightBefore(h) - 1)
                    = (IF x = U256Zero THEN U256One ELSE U256Zero)
               /\ LowerSlotsKept(h, HeightBefore(h) - 1)

\* Iszero has run on a zero top word above another slot, and on a nonzero
\* top word whose low 64 bits are zero
C11_Witness ==
    /\ \E i \in Entries :
           /\ Succeeded(hist[i], "Iszero")
           /\ HeightBefore(hist[i]) >= 2
           /\ SlotBefore(hist[i], HeightBefore(hist[i]) - 1) = U256Zero
    /\ \E i \in Entries :
           LET x == SlotBefore(hist[i], HeightBefore(hist[i]) - 1)
           IN  /\ Succeeded(hist[i], "Iszero")
               /\ x # U256Zero
               /\ \A l \in 1..4 : x[l] = 0

\* ------------------------------------------------------------------------
\* C12
\* ------------------------------------------------------------------------
\* C12: a successful Eq pops the two top words a and b and pushes 1 when
\* a = b and 0 when a # b; stack_len decreases by exactly 1 and all lower
\* slots are unchanged.
C12_EqPushesEquality ==
    \A i \in Entries :
        LET h == hist[i]
            a == SlotBefore(h, HeightBefore(h) - 1)
            b == SlotBefore(h, HeightBefore(h) - 2)
        IN  Succeeded(h, "Eq")
            => /\ HeightAfter(h) = HeightBefore(h) - 1
               /\ SlotAfter(h, HeightBefore(h) - 2)
                    = (IF a = b THEN U256One ELSE U256Zero)
               /\ LowerSlotsKept(h, HeightBefore(h) - 2)

\* Eq has run above a third slot on two different words whose low 64 bits
\* agree
C12_Witness ==
    \E i \in Entries :
        LET h == hist[i]
            a == SlotBefore(h, HeightBefore(h) - 1)
            b == SlotBefore(h, HeightBefore(h) - 2)
        IN  /\ Succeeded(h, "Eq")
            /\ HeightBefore(h) >= 3
            /\ a # b
            /\ \A l \in 1..4 : a[l] = b[l]

\* ------------------------------------------------------------------------
\* Rows
\* ------------------------------------------------------------------------
\* the CPU row the invocation h appended
CpuRowOf(h) == traces.cpu[h.n_cpu_out]

\* ------------------------------------------------------------------------
\* C14
\* ------------------------------------------------------------------------
\* the channels of the memory logs the invocation h appended, in log order
ChannelsOf(h) == [k \in 1..Len(LogsOf(h)) |-> LogsOf(h)[k].channel]

\* the channels each operation uses, in log order
OpChannels(op) ==
    CASE op.kind \in {"Dup", "Not", "Iszero"} -> <<0, NUM_GP_CHANNELS - 1>>
      [] op.kind = "Swap" -> <<0, 1, NUM_GP_CHANNELS - 2, NUM_GP_CHANNELS - 1>>
      [] op.kind \in {"BinaryLogic", "Eq"} -> <<0, 1, NUM_GP_CHANNELS - 1>>
      [] op.kind = "Syscall" -> <<0, 1, 2, NUM_GP_CHANNELS - 1>>
      [] op.kind = "ExitKernel" -> <<0>>

\* C14 as stated: the k-th memory log of a step is on the same channel
\* whichever handler produced it, for every k both handlers reach.
C14_KthLogOnSameChannel ==
    \A i, j \in Entries :
        \A k \in 1..Len(LogsOf(hist[i])) :
            k <= Len(LogsOf(hist[j]))
                => LogsOf(hist[i])[k].channel = LogsOf(hist[j])[k].channel

\* C14 amended: the channels of a step's memory logs are fixed per operation,
\* whatever the operands and registers: Dup, Not, Iszero 0 and the last
\* channel; Swap 0, 1, the last but one, the last; BinaryLogic, Eq 0, 1, the
\* last; Syscall 0, 1, 2, the last; ExitKernel 0. They ascend strictly within
\* a step and the first log is on channel 0.
C14_ChannelsFixedPerOperation ==
    \A i \in Entries :
        LET h == hist[i]
            ch == ChannelsOf(h)
        IN  h.tag = "Ok"
            => /\ ch = OpChannels(h.op)
               /\ ch[1] = 0
               /\ \A k \in 1..(Len(ch) - 1) : ch[k] < ch[k + 1]

\* a Swap and a Syscall have both succeeded in one run: four logs each, the
\* third on different channels
C14_Witness ==
    \E i, j \in Entries :
        /\ Succeeded(hist[i], "Swap")
        /\ Succeeded(hist[j], "Syscall")
        /\ Len(LogsOf(hist[i])) = 4
        /\ Len(LogsOf(hist[j])) = 4
        /\ LogsOf(hist[i])[3].channel # LogsOf(hist[j])[3].channel

\* ------------------------------------------------------------------------
\* C15
\* ------------------------------------------------------------------------
\* the change of stack_len a successful operation makes
NetEffect(op) ==
    CASE op.kind \in {"Dup", "Syscall"} -> 1
      [] op.kind \in {"Swap", "Not", "Iszero"} -> 0
      [] op.kind \in {"BinaryLogic", "Eq", "ExitKernel"} -> -1

\* C15: in every reachable state stack_len has never gone below zero: a step
\* that would pop or address a slot below the bottom of the stack fails
\* instead, no logged access is below the bottom, and after each successful
\* step stack_len is the previous stack_len plus the net effect of the
\* operation (Dup, Syscall +1; Swap, Not, Iszero 0; BinaryLogic, Eq,
\* ExitKernel -1).
C15_StackLenNeverBelowZero ==
    /\ registers.stack_len >= 0
    /\ \A k \in 1..Len(traces.memory) : traces.memory[k].address[3] >= 0
    /\ \A i \in Entries :
           LET h == hist[i]
           IN  /\ HeightBefore(h) >= 0
               /\ HeightAfter(h) >= 0
               /\ HeightBefore(h) < RequiredDepth(h.op) => h.tag = "Err"
               /\ h.tag = "Ok" => HeightAfter(h) = HeightBefore(h) + NetEffect(h.op)
               /\ h.tag # "Ok" => HeightAfter(h) = HeightBefore(h)

\* a step took the last word off the stack and the next step, needing a
\* word, failed
C15_Witness ==
    \E i \in Entries :
        /\ i + 1 \in Entries
        /\ hist[i].tag = "Ok"
        /\ NetEffect(hist[i].op) = -1
        /\ HeightAfter(hist[i]) = 0
        /\ hist[i + 1].tag = "Err"
        /\ registers.stack_len = 0

\* ------------------------------------------------------------------------
\* C16
\* ------------------------------------------------------------------------
\* C16: StackUnderflow is the only recoverable error kind: every Err a
\* handler returns is StackUnderflow, and a malformed condition (a packed
\* return word whose flag bits, bits 32 and above, are neither 0 nor 1) ends
\* in a fatal abort, neither in an Err nor in a completed step.
C16_OnlyStackUnderflowIsRecoverable ==
    \A i \in Entries :
        LET h == hist[i]
            w == SlotBefore(h, HeightBefore(h) - 1)
        IN  /\ h.tag = "Err" => h.error = "StackUnderflow"
            /\ (h.op.kind = "ExitKernel" /\ HeightBefore(h) >= 1
                    /\ ~IsPackedReturnWord(w))
                   => h.tag = "Panic"

\* ------------------------------------------------------------------------
\* C17
\* ------------------------------------------------------------------------
\* C17: ExitKernel aborts for every popped word whose bits 32 and above are
\* neither 0 nor 1 and completes only for the words whose bits 32 and above
\* are exactly 0 or 1; an abort appends no memory log and no CPU row.
C17_ExitKernelAbortsOnBadFlagBits ==
    \A i \in Entries :
        LET h == hist[i]
            w == SlotBefore(h, HeightBefore(h) - 1)
        IN  (h.op.kind = "ExitKernel" /\ HeightBefore(h) >= 1)
            => /\ (h.tag = "Panic") <=> ~IsPackedReturnWord(w)
               /\ (h.tag = "Ok") <=> IsPackedReturnWord(w)
               /\ h.tag = "Panic"
                      => (h.n_memory_out = h.n_memory /\ h.n_cpu_out = h.n_cpu)

\* ------------------------------------------------------------------------
\* C18
\* ------------------------------------------------------------------------
\* C18: a successful Syscall followed at once by ExitKernel is a round trip
\* on the registers: ExitKernel completes with the program_counter, the
\* is_kernel flag and the stack_len the registers had before the Syscall.
C18_SyscallThenExitKernelRestores ==
    \A i \in Entries :
        (i + 1 \in Entries /\ Succeeded(hist[i], "Syscall")
            /\ hist[i + 1].op.kind = "ExitKernel")
        => /\ hist[i + 1].tag = "Ok"
           /\ hist[i + 1].registers_out.program_counter = hist[i].registers.program_counter
           /\ hist[i + 1].registers_out.is_kernel = hist[i].registers.is_kernel
           /\ hist[i + 1].registers_out.stack_len = hist[i].registers.stack_len

\* ------------------------------------------------------------------------
\* C19
\* ------------------------------------------------------------------------
\* the word program_counter + 2^32 * is_kernel
PackedReturnWord(program_counter, is_kernel) ==
    [l \in 1..WordLimbs |->
        IF l <= U32Limbs THEN program_counter[l]
        ELSE IF l = U32Limbs + 1 /\ is_kernel THEN 1 ELSE 0]

\* C19: the word a successful Syscall pushes is program_counter + 2^32 *
\* is_kernel of the registers before the call; it is written at stack offset
\* old stack_len and stack_len grows by exactly 1.
C19_SyscallPushesOldCounterAndFlag ==
    \A i \in Entries :
        LET h == hist[i]
            logs == LogsOf(h)
        IN  Succeeded(h, "Syscall")
            => /\ HeightAfter(h) = HeightBefore(h) + 1
               /\ SlotAfter(h, HeightBefore(h))
                    = PackedReturnWord(h.registers.program_counter, h.registers.is_kernel)
               /\ logs[Len(logs)] =
                      MemoryOp(NUM_GP_CHANNELS - 1, h.n_cpu,
                               <<h.registers.context, SegmentStack, HeightBefore(h)>>,
                               FALSE,
                               PackedReturnWord(h.registers.program_counter,
                                                h.registers.is_kernel))

\* a Syscall succeeded from kernel mode and from user mode, each time to a
\* handler address other than the old program counter, above a word
C19_Witness ==
    /\ \E i \in Entries :
           /\ Succeeded(hist[i], "Syscall")
           /\ hist[i].registers.is_kernel
           /\ hist[i].registers_out.program_counter # hist[i].registers.program_counter
    /\ \E i \in Entries :
           /\ Succeeded(hist[i], "Syscall")
           /\ ~hist[i].registers.is_kernel
           /\ HeightBefore(hist[i]) >= 1
           /\ hist[i].registers_out.program_counter # hist[i].registers.program_counter

\* ------------------------------------------------------------------------
\* C20
\* ------------------------------------------------------------------------
\* a word below 256, a u32 below 2^24
IsByte(w) == w[1] < 256 /\ \A l \in 2..WordLimbs : w[l] = 0
Below2To24(p) == p[2] < 256

\* C20 as stated: after every successful Syscall program_counter < 2^24,
\* whatever the three words read.
C20_HandlerAddressBelow2To24 ==
    \A i \in Entries :
        Succeeded(hist[i], "Syscall") => Below2To24(hist[i].registers_out.program_counter)

\* C20 amended: after a successful Syscall program_counter is the assembled
\* address, which fits 32 bits (the call aborts otherwise); it is below 2^24
\* whenever the three words read are bytes.
C20_HandlerAddressBelow2To24ForBytes ==
    \A i \in Entries :
        LET h == hist[i]
        IN  Succeeded(h, "Syscall")
            => /\ Len(h.registers_out.program_counter) = U32Limbs
               /\ \A l \in 1..U32Limbs : h.registers_out.program_counter[l] \in 0..(LimbBase - 1)
               /\ (\A j \in 0..2 : IsByte(JumpCell(h, j)))
                      => Below2To24(h.registers_out.program_counter)

\* a Syscall succeeded on three bytes, none of them zero, and the address
\* uses its third byte
C20_Witness ==
    \E i \in Entries :
        /\ Succeeded(hist[i], "Syscall")
        /\ \A j \in 0..2 : IsByte(JumpCell(hist[i], j)) /\ JumpCell(hist[i], j) # U256Zero
        /\ hist[i].registers_out.program_counter[2] >= 1

\* ------------------------------------------------------------------------
\* C21
\* ------------------------------------------------------------------------
\* C21: for every n and every stack with stack_len >= n + 2, Swap(n) succeeds
\* and, with its logged writes applied, the top slot holds the word that was
\* at offset stack_len - 2 - n, that slot holds the old top word, and every
\* other stack slot is unchanged.
C21_SwapExchangesTopAndTarget ==
    \A i \in Entries :
        LET h == hist[i]
            top == HeightBefore(h) - 1
            target == HeightBefore(h) - 2 - h.op.n
        IN  (h.op.kind = "Swap" /\ HeightBefore(h) >= h.op.n + 2)
            => /\ h.tag = "Ok"
               /\ SlotAfter(h, top) = SlotBefore(h, target)
               /\ SlotAfter(h, target) = SlotBefore(h, top)
               /\ \A off \in 0..top :
                      off \notin {top, target} => SlotAfter(h, off) = SlotBefore(h, off)

\* Swap(0) ran on three words, the top two different, and Swap(1) ran on
\* three words, the top and the bottom different
C21_Witness ==
    /\ \E i \in Entries :
           /\ Succeeded(hist[i], "Swap")
           /\ hist[i].op.n = 0
           /\ HeightBefore(hist[i]) = 3
           /\ SlotBefore(hist[i], 2) # SlotBefore(hist[i], 1)
    /\ \E i \in Entries :
           /\ Succeeded(hist[i], "Swap")
           /\ hist[i].op.n = 1
           /\ HeightBefore(hist[i]) = 3
           /\ SlotBefore(hist[i], 2) # SlotBefore(hist[i], 0)

\* ------------------------------------------------------------------------
\* C22
\* ------------------------------------------------------------------------
\* C22: a successful Swap(n) appends exactly four memory logs, in this
\* order: the read of the top slot, the read of the target slot at offset
\* stack_len - 2 - n on channel 1, the write of the popped top word to the
\* target address on channel NUM_GP_CHANNELS - 2, and the push write of the
\* word read from the target at offset stack_len - 1; the target read
\* returns the word the slot held before the step.
C22_SwapLogsPopReadWritePush ==
    \A i \in Entries :
        LET h == hist[i]
            logs == LogsOf(h)
            context == h.registers.context
            top == <<context, SegmentStack, HeightBefore(h) - 1>>
            target == <<context, SegmentStack, HeightBefore(h) - 2 - h.op.n>>
            in0 == MemGet(h.memory, top)
            in1 == MemGet(h.memory, target)
        IN  Succeeded(h, "Swap")
            => /\ Len(logs) = 4
               /\ logs[1].is_read /\ logs[1].address = top /\ logs[1].value = in0
               /\ logs[2] = MemoryOp(1, h.n_cpu, target, TRUE, in1)
               /\ logs[3] = MemoryOp(NUM_GP_CHANNELS - 2, h.n_cpu, target, FALSE, in0)
               /\ ~logs[4].is_read /\ logs[4].address = top /\ logs[4].value = in1

\* Swap(1) succeeded on a stack whose top and target words differ, after an
\* earlier step had appended logs
C22_Witness ==
    \E i \in Entries :
        /\ Succeeded(hist[i], "Swap")
        /\ hist[i].op.n = 1
        /\ hist[i].n_memory >= 1
        /\ SlotBefore(hist[i], HeightBefore(hist[i]) - 1)
               # SlotBefore(hist[i], HeightBefore(hist[i]) - 3)

\* ------------------------------------------------------------------------
\* C23
\* ------------------------------------------------------------------------
\* the logic row the invocation h appended
LogicRowOf(h) == traces.logic[h.n_logic_out]

\* the word whose u64 limb k has the low half columns[2k] and the high half
\* columns[2k + 1]
FromResultColumns(columns) ==
    [l \in 1..WordLimbs |->
        LET k == (l - 1) \div 4
            part == (l - 1) % 4
        IN  IF part < U32Limbs THEN columns[2 * k][part + 1]
            ELSE columns[2 * k + 1][part - U32Limbs + 1]]

\* bit i of the 16-bit limbs: the limb is cut above the bit, then the bits
\* below it are dropped
BitByCutting(x, i) ==
    (x[(i \div LimbBits) + 1] % (2 ^ ((i % LimbBits) + 1))) \div (2 ^ (i % LimbBits))

\* C23: the logic row a successful BinaryLogic(op) appends for the popped
\* operands in0 (former top) and in1 (former second) has exactly the
\* selector of op set to 1; INPUT0 and INPUT1 hold bit i of in0 and in1 for
\* every i in 0..255; and the eight RESULT columns, the low and high 32-bit
\* halves of the four 64-bit limbs in little-endian order, reassemble to
\* op(in0, in1).
C23_LogicRowDecomposesOperands ==
    \A i \in Entries :
        Succeeded(hist[i], "BinaryLogic")
        => \A h \in {hist[i]} :
           \A row \in {LogicRowOf(h)} :
           \A in0 \in {SlotBefore(h, HeightBefore(h) - 1)} :
           \A in1 \in {SlotBefore(h, HeightBefore(h) - 2)} :
               /\ h.n_logic_out = h.n_logic + 1
               /\ row.IS_AND = (IF h.op.logic = "And" THEN 1 ELSE 0)
               /\ row.IS_OR = (IF h.op.logic = "Or" THEN 1 ELSE 0)
               /\ row.IS_XOR = (IF h.op.logic = "Xor" THEN 1 ELSE 0)
               /\ row.IS_AND + row.IS_OR + row.IS_XOR = 1
               /\ DOMAIN row.INPUT0 = 0..(WordBits - 1)
               /\ DOMAIN row.INPUT1 = 0..(WordBits - 1)
               /\ \A b \in 0..(WordBits - 1) :
                      /\ row.INPUT0[b] = BitByCutting(in0, b)
                      /\ row.INPUT1[b] = BitByCutting(in1, b)
               /\ DOMAIN row.RESULT = 0..7
               /\ IsBitwise(h.op.logic, FromResultColumns(row.RESULT), in0, in1)

\* an Or ran on two different operands, the result differing between the
\* low and the high half of its first limb and having its top bit set
C23_Witness ==
    \E i \in Entries :
        LET h == hist[i]
            row == LogicRowOf(h)
        IN  /\ Succeeded(h, "BinaryLogic")
            /\ h.op.logic = "Or"
            /\ SlotBefore(h, HeightBefore(h) - 1) # SlotBefore(h, HeightBefore(h) - 2)
            /\ row.RESULT[0] # row.RESULT[1]
            /\ row.INPUT0[WordBits - 1] + row.INPUT1[WordBits - 1] >= 1

\* ------------------------------------------------------------------------
\* C24
\* ------------------------------------------------------------------------
\* the lists the pushes of the invocation h went to, in the order of the
\* pushes
CallsOf(h) ==
    SubSeq(traces.calls, h.n_cpu + h.n_memory + h.n_logic + 1,
           h.n_cpu_out + h.n_memory_out + h.n_logic_out)

\* n memory pushes in a row
RECURSIVE MemoryCalls(_)
MemoryCalls(n) == IF n = 0 THEN <<>> ELSE <<"memory">> \o MemoryCalls(n - 1)

\* one access: its direction and address
Access(is_read, context, segment, offset) ==
    [is_read |-> is_read, address |-> <<context, segment, offset>>]

\* the accesses an operation performs on registers r, in the order it
\* performs them: the pops, the direct reads and writes, the push
AccessesOf(op, r) ==
    LET c == r.context
        H == r.stack_len
        pop1 == Access(TRUE, c, SegmentStack, H - 1)
        pop2 == Access(TRUE, c, SegmentStack, H - 2)
        target == H - 2 - op.n
        jump(j) == Access(TRUE, 0, SegmentCode, SyscallJumptable + op.n + j)
    IN  CASE op.kind = "Dup" ->
                 << Access(TRUE, c, SegmentStack, H - 1 - op.n),
                    Access(FALSE, c, SegmentStack, H) >>
          [] op.kind = "Swap" ->
                 << pop1, Access(TRUE, c, SegmentStack, target),
                    Access(FALSE, c, SegmentStack, target),
                    Access(FALSE, c, SegmentStack, H - 1) >>
          [] op.kind \in {"BinaryLogic", "Eq"} ->
                 << pop1, pop2, Access(FALSE, c, SegmentStack, H - 2) >>
          [] op.kind \in {"Not", "Iszero"} ->
                 << pop1, Access(FALSE, c, SegmentStack, H - 1) >>
          [] op.kind = "Syscall" ->
                 << jump(0), jump(1), jump(2), Access(FALSE, c, SegmentStack, H) >>
          [] op.kind = "ExitKernel" -> << pop1 >>

\* C24: every successful step appends exactly one CPU row, and it is the
\* last thing the step appends; all memory logs of the step are appended
\* before it, in the order the accesses were performed (pops, then direct
\* reads and writes, then the push); for BinaryLogic the logic row is
\* appended before the memory logs of the step.
C24_CpuRowLastLogicRowFirst ==
    \A i \in Entries :
        LET h == hist[i]
            logs == LogsOf(h)
        IN  h.tag = "Ok"
            => /\ h.n_cpu_out = h.n_cpu + 1
               /\ CallsOf(h) =
                      (IF h.op.kind = "BinaryLogic" THEN <<"logic">> ELSE <<>>)
                      \o MemoryCalls(Len(logs)) \o <<"cpu">>
               /\ [k \in 1..Len(logs) |->
                       [is_read |-> logs[k].is_read, address |-> logs[k].address]]
                      = AccessesOf(h.op, h.registers)

\* a BinaryLogic step and a Swap(1) step have both succeeded in one run
C24_Witness ==
    \E i, j \in Entries :
        /\ Succeeded(hist[i], "BinaryLogic")
        /\ Succeeded(hist[j], "Swap")
        /\ hist[j].op.n = 1
        /\ Len(CallsOf(hist[i])) = 5
        /\ Len(CallsOf(hist[j])) = 5

\* ------------------------------------------------------------------------
\* C25
\* ------------------------------------------------------------------------
\* the memory logs a successful operation appends
LogCount(op) ==
    CASE op.kind \in {"Dup", "Not", "Iszero"} -> 2
      [] op.kind \in {"BinaryLogic", "Eq"} -> 3
      [] op.kind \in {"Swap", "Syscall"} -> 4
      [] op.kind = "ExitKernel" -> 1

\* the sum of f(h) over the successful invocations among the first n
RECURSIVE SumOverSuccessful(_, _)
SumOverSuccessful(f(_), n) ==
    IF n = 0 THEN 0
    ELSE SumOverSuccessful(f, n - 1) + (IF hist[n].tag = "Ok" THEN f(hist[n]) ELSE 0)

OneRow(h) == 1
OneRowIfBinaryLogic(h) == IF h.op.kind = "BinaryLogic" THEN 1 ELSE 0
LogCountOf(h) == LogCount(h.op)

\* C25: after any sequence of steps the sink holds one CPU row per
\* successful step, one logic row per successful BinaryLogic step and none
\* for any other operation, and as many memory logs as the successful steps
\* sum to with Dup 2, Not 2, Iszero 2, BinaryLogic 3, Eq 3, Swap 4, Syscall
\* 4, ExitKernel 1; failed steps contribute nothing.
C25_SinkCountsPerSuccessfulStep ==
    /\ Len(traces.cpu) = SumOverSuccessful(OneRow, Len(hist))
    /\ Len(traces.logic) = SumOverSuccessful(OneRowIfBinaryLogic, Len(hist))
    /\ Len(traces.memory) = SumOverSuccessful(LogCountOf, Len(hist))

\* a failed step and a successful BinaryLogic step, in either order
C25_Witness ==
    \E i, j \in Entries :
        /\ hist[i].tag # "Ok"
        /\ Succeeded(hist[j], "BinaryLogic")
        /\ Len(traces.logic) = 1
        /\ Len(traces.memory) = 3

\* ------------------------------------------------------------------------
\* C26
\* ------------------------------------------------------------------------
\* C26: within every successful step the channels of the memory logs, in
\* the order they are appended, ascend strictly, so no two accesses of a
\* step share a channel: Dup 0 then the push channel; Swap 0, 1,
\* NUM_GP_CHANNELS - 2, then the push channel; Syscall 0, 1, 2, then the push
\* channel.
C26_ChannelsAscendWithinStep ==
    \A i \in Entries :
        LET h == hist[i]
            ch == ChannelsOf(h)
            n == Len(ch)
        IN  h.tag = "Ok"
            => /\ \A k \in 1..n : ch[k] \in 0..(NUM_GP_CHANNELS - 1)
               /\ \A k, l \in 1..n : k < l => ch[k] < ch[l]
               /\ Cardinality({ch[k] : k \in 1..n}) = n
               /\ h.op.kind = "Dup" => (n = 2 /\ ch[1] = 0)
               /\ h.op.kind = "Swap"
                      => (n = 4 /\ SubSeq(ch, 1, 3) = <<0, 1, NUM_GP_CHANNELS - 2>>)
               /\ h.op.kind = "Syscall" => (n = 4 /\ SubSeq(ch, 1, 3) = <<0, 1, 2>>)
               /\ h.op.kind \in {"Dup", "Swap", "Syscall"}
                      => (~LogsOf(h)[n].is_read /\ ch[n] > NUM_GP_CHANNELS - 2)

\* a Dup and then a Swap(1) have succeeded in one run, or a Syscall and
\* then a Swap
C26_Witness ==
    \E i, j \in Entries :
        /\ i < j
        /\ Succeeded(hist[i], "Dup") \/ Succeeded(hist[i], "Syscall")
        /\ Succeeded(hist[j], "Swap")
        /\ Len(ChannelsOf(hist[j])) = 4
        /\ ChannelsOf(hist[i])[Len(ChannelsOf(hist[i]))] = ChannelsOf(hist[j])[4]

\* ------------------------------------------------------------------------
\* C27
\* ------------------------------------------------------------------------
\* a is a prefix of b
IsPrefix(a, b) == Len(a) <= Len(b) /\ SubSeq(b, 1, Len(a)) = a

\* C27: the sink is append-only across any sequence of steps: the CPU rows,
\* memory logs and logic rows present before a handler call are prefixes of
\* those present after it; no handler removes, reorders or rewrites an
\* earlier row.
C27_SinkIsAppendOnly ==
    [][/\ IsPrefix(traces.cpu, traces'.cpu)
       /\ IsPrefix(traces.memory, traces'.memory)
       /\ IsPrefix(traces.logic, traces'.logic)]_vars

\* a step has succeeded on a sink that already held a CPU row, memory logs
\* and a logic row
C27_Witness ==
    \E i \in Entries :
        /\ hist[i].tag = "Ok"
        /\ hist[i].n_cpu >= 1
        /\ hist[i].n_memory >= 1
        /\ hist[i].n_logic >= 1
        /\ hist[i].n_cpu_out > hist[i].n_cpu

\* ------------------------------------------------------------------------
\* C28
\* ------------------------------------------------------------------------
\* the CPU rows and the logic rows the invocation h appended
CpuRowsOf(h) == SubSeq(traces.cpu, h.n_cpu + 1, h.n_cpu_out)
LogicRowsOf(h) == SubSeq(traces.logic, h.n_logic + 1, h.n_logic_out)

\* the invocations i and j were given the same operation argument, registers
\* and memory (the input row is the same fresh row for every invocation)
EqualInputs(i, j) ==
    /\ hist[i].op = hist[j].op
    /\ hist[i].registers = hist[j].registers
    /\ hist[i].memory = hist[j].memory

WithoutTimestamps(logs) ==
    [k \in 1..Len(logs) |->
        [channel |-> logs[k].channel, address |-> logs[k].address,
         is_read |-> logs[k].is_read, value |-> logs[k].value]]

\* the handler of the operation op
Invoke(op, registers_state, memory_state, sink, row) ==
    CASE op.kind = "Dup" -> generate_dup(op.n, registers_state, memory_state, sink, row)
      [] op.kind = "Swap" -> generate_swap(op.n, registers_state, memory_state, sink, row)
      [] op.kind = "Iszero" -> generate_iszero(registers_state, memory_state, sink, row)
      [] op.kind = "Not" -> generate_not(registers_state, memory_state, sink, row)
      [] op.kind = "Syscall" ->
             generate_syscall(op.n, registers_state, memory_state, sink, row)
      [] op.kind = "Eq" -> generate_eq(registers_state, memory_state, sink, row)
      [] op.kind = "ExitKernel" ->
             generate_exit_kernel(registers_state, memory_state, sink, row)
      [] op.kind = "BinaryLogic" ->
             generate_binary_logic_op(op.logic, registers_state, memory_state, sink, row)

\* a sink at step n that holds nothing but n blank CPU rows
BlankSinkAt(n) == [EmptyTraces EXCEPT !.cpu = [k \in 1..n |-> EmptyRow]]

StackKinds == {"Dup", "Swap", "BinaryLogic", "Not", "Iszero", "Eq"}

\* C30: Dup, Swap, BinaryLogic, Not, Iszero and Eq leave program_counter,
\* is_kernel and context unchanged; only Syscall and ExitKernel change
\* program_counter and is_kernel; no handler changes context.
C30_StackHandlersKeepCounterFlagContext ==
    \A i \in Entries :
        LET h == hist[i]
        IN  /\ h.registers_out.context = h.registers.context
            /\ h.op.kind \in StackKinds
                   => /\ h.registers_out.program_counter = h.registers.program_counter
                      /\ h.registers_out.is_kernel = h.registers.is_kernel
            /\ (h.registers_out.program_counter # h.registers.program_counter
                    \/ h.registers_out.is_kernel # h.registers.is_kernel)
                   => (h.tag = "Ok" /\ h.op.kind \in {"Syscall", "ExitKernel"})

\* a Syscall has changed program_counter and is_kernel, and the next step,
\* one of the six stack handlers, has succeeded in kernel mode
C30_Witness ==
    \E i \in Entries :
        /\ i + 1 \in Entries
        /\ Succeeded(hist[i], "Syscall")
        /\ hist[i].registers_out.program_counter # hist[i].registers.program_counter
        /\ hist[i].registers_out.is_kernel # hist[i].registers.is_kernel
        /\ hist[i + 1].tag = "Ok"
        /\ hist[i + 1].op.kind \in StackKinds
        /\ hist[i + 1].registers_out.is_kernel

\* ------------------------------------------------------------------------
\* C31
\* ------------------------------------------------------------------------
\* the address lies in the stack segment of the context the invocation h ran in
InCurrentStack(h, address) ==
    address[1] = h.registers.context /\ address[2] = SegmentStack

\* the addresses of the channels the CPU row of the invocation h has filled
RowAddressesOf(h) ==
    {CpuRowOf(h).mem_channels[c].address :
        c \in {d \in 0..(NUM_GP_CHANNELS - 1) : CpuRowOf(h).mem_channels[d].used}}

\* C31: a successful Syscall(opcode) reads its three jump-table bytes at
\* context 0, code segment, offsets syscall_jumptable + opcode + 0, 1, 2,
\* whatever the current context is, and pushes its return word at offset
\* stack_len of the stack segment of the current context; every access of
\* every other handler lies in the stack segment of the current context.
C31_SyscallReadsContextZeroCode ==
    \A i \in Entries :
        LET h == hist[i]
            logs == LogsOf(h)
        IN  h.tag = "Ok"
            => IF h.op.kind = "Syscall"
               THEN /\ Len(logs) = 4
                    /\ \A j \in 0..2 :
                           /\ logs[j + 1].is_read
                           /\ logs[j + 1].address
                                  = <<0, SegmentCode, SyscallJumptable + h.op.n + j>>
                           /\ logs[j + 1].value = JumpCell(h, j)
                    /\ ~logs[4].is_read
                    /\ logs[4].address
                           = <<h.registers.context, SegmentStack, h.registers.stack_len>>
                    /\ RowAddressesOf(h) = {logs[k].address : k \in 1..4}
               ELSE /\ \A k \in 1..Len(logs) : InCurrentStack(h, logs[k].address)
                    /\ \A a \in RowAddressesOf(h) : InCurrentStack(h, a)

\* a Syscall has succeeded in a context other than 0 on a non-empty stack,
\* with a jump-table byte that is not zero
C31_Witness ==
    \E i \in Entries :
        /\ Succeeded(hist[i], "Syscall")
        /\ hist[i].registers.context # 0
        /\ hist[i].registers.stack_len >= 1
        /\ \E j \in 0..2 : JumpCell(hist[i], j) # U256Zero

\* ------------------------------------------------------------------------
\* C32
\* ------------------------------------------------------------------------
\* the positions of the write logs of the invocation h that point to address
WritesAt(h, address) ==
    {k \in 1..Len(LogsOf(h)) :
        ~LogsOf(h)[k].is_read /\ LogsOf(h)[k].address = address}

\* the largest element of a non-empty set of numbers
Last(S) == CHOOSE k \in S : \A l \in S : l <= k

\* C32: every read an invocation logs, and every read channel of its CPU
\* row, carries the word the memory view held at that address before the
\* invocation, also at an address the same invocation writes; a failed
\* invocation leaves every address of the memory as it was and logs nothing;
\* after a successful one an address holds its former word unless a write
\* log of the invocation points to it, and then it holds the word of the
\* last such log.
C32_HandlersLeaveMemoryViewAlone ==
    \A i \in Entries :
        \A h \in {hist[i]} :
        \A logs \in {LogsOf(h)} :
            /\ \A k \in 1..Len(logs) :
                   logs[k].is_read => logs[k].value = MemGet(h.memory, logs[k].address)
            /\ h.tag = "Ok"
                   => \A c \in 0..(NUM_GP_CHANNELS - 1) :
                          LET ch == CpuRowOf(h).mem_channels[c]
                          IN  (ch.used /\ ch.is_read)
                                  => ch.value = MemGet(h.memory, ch.address)
            /\ h.tag # "Ok" => (h.memory_out = h.memory /\ logs = <<>>)
            /\ \A a \in (DOMAIN h.memory) \cup (DOMAIN h.memory_out) :
                   MemGet(h.memory_out, a)
                       = IF WritesAt(h, a) = {} THEN MemGet(h.memory, a)
                         ELSE logs[Last(WritesAt(h, a))].value
            /\ \A k \in 1..Len(logs) : logs[k].address \in DOMAIN h.memory_out

\* after a failed invocation, a Swap has exchanged two different words: its
\* read of the target slot carries the former word of a slot that its own
\* write log overwrites with another word
C32_Witness ==
    \E i \in Entries :
        /\ i + 1 \in Entries
        /\ hist[i].tag = "Err"
        /\ Succeeded(hist[i + 1], "Swap")
        /\ \E k \in 1..Len(LogsOf(hist[i + 1])) :
               LET log == LogsOf(hist[i + 1])[k]
               IN  /\ log.is_read
                   /\ WritesAt(hist[i + 1], log.address) # {}
                   /\ MemGet(hist[i + 1].memory_out, log.address) # log.value

====
